---------------------------- MODULE Spec2Model ----------------------------
(***************************************************************************)
(* Model of the text-normalization engine of src/text_cleaner.py.          *)
(*                                                                         *)
(* A text is a sequence of characters.  An ASCII character is the string   *)
(* holding it; a character outside ASCII is named by its code point        *)
(* ("uFF0C" is the full-width comma, "u0060" the backtick, "u0022" the     *)
(* double quote).  Regular expressions of the source                       *)
(* are transcribed node by node and run by a backtracking matcher that     *)
(* explores alternatives in the order of Python's re module.               *)
(***************************************************************************)
EXTENDS Integers, Sequences, FiniteSets, TLC

-----------------------------------------------------------------------------
(* Characters *)

NL == "\n"
CR == "\r"
TAB == "\t"
SP == " "
NBSP == "u00A0"
IDSP == "u3000"

ZeroWidthChars == {"u200B", "u200C", "u200D", "uFEFF"}
EmojiChars == {"u1F600", "u2600", "u2728"}
LowerLetters == {"a", "b", "c", "d", "e", "f", "g", "h", "i", "k", "l", "m", "n",
                 "o", "p", "r", "s", "t", "u", "v", "w", "x", "y"}
UpperLetters == {"U", "R", "L"}
Letters == LowerLetters \cup UpperLetters
Digits == {"0", "1", "2", "3"}
\* ideographs of U+4E00..U+9FFF: those of the hint sets of the source and a
\* few more
CJKChars == {"u4E2D", "u6587", "u7F51", "u7AD9", "u5740", "u6838", "u5FC3",
             "u7528", "u9014", "u4F18", "u52BF", "u8BF4", "u660E", "u5907",
             "u6CE8", "u7C7B", "u578B", "u540D", "u79F0", "u6807", "u9898",
             "u5E73", "u53F0", "u70B9", "u8D44", "u6E90", "u94FE", "u63A5",
             "u8FD9", "u662F", "u91CD", "u5185", "u5BB9", "u7B2C", "u4E00",
             "u884C", "u6CA1", "u6709", "u7ED3", "u5C3E", "u7EE7", "u7EED",
             "u53E5", "u8BDD", "u4F60", "u597D", "u4E16", "u754C"}
AsciiPunct == {"!", "u0022", "#", "'", "(", ")", "*", "+", ",", "-", ".", "/",
               ":", ";", "<", "=", ">", "?", "@", "[", "u005C", "]", "_", "u0060",
               "{", "|", "}", "&"}
WidePunct == {"u201C", "u201D", "u2018", "u2019", "u2014", "u2013", "u2026",
              "u3010", "u3011", "uFF08", "uFF09", "uFF0C", "u3002", "uFF1B",
              "uFF1A", "uFF01", "uFF1F", "u3001", "u300A", "u300B"}
BulletChars == {"u2022", "u00B7", "u25CF", "u25AA", "u25E6", "u2023", "u2043"}
SpaceChars == {SP, TAB, NL, CR, NBSP, IDSP}

Alphabet == Letters \cup Digits \cup CJKChars \cup AsciiPunct \cup WidePunct
            \cup BulletChars \cup SpaceChars \cup ZeroWidthChars \cup EmojiChars

\* \w, \d and \s of a Python str pattern, over the alphabet
WordChars == Letters \cup Digits \cup CJKChars \cup {"_"}
Not(S) == Alphabet \ S

-----------------------------------------------------------------------------
(* Sequences of characters *)

\* The element of a one-element set.  A value is named once, as in
\* The({f(x, x) : x \in {e}}), where the code assigns it to a local variable
The(S) == CHOOSE x \in S : TRUE

\* the least element of a set of integers, d for the empty set
MinOr(S, d) == IF S = {} THEN d ELSE CHOOSE x \in S : \A y \in S : x <= y

\* the greatest element of a set of integers, d for the empty set
MaxOr(S, d) == IF S = {} THEN d ELSE CHOOSE x \in S : \A y \in S : x >= y

\* ss[lo] \o ... \o ss[hi], by halves
RECURSIVE FlattenRange(_, _, _)
FlattenRange(ss, lo, hi) ==
  CASE lo > hi -> <<>>
    [] lo = hi -> ss[lo]
    [] OTHER -> FlattenRange(ss, lo, (lo + hi) \div 2)
                \o FlattenRange(ss, (lo + hi) \div 2 + 1, hi)

Flatten(ss) == FlattenRange(ss, 1, Len(ss))

\* sep.join(ss)
Join(sep, ss) ==
  IF ss = <<>> THEN <<>>
  ELSE Flatten([k \in 1..(2 * Len(ss) - 1) |->
                  IF k % 2 = 1 THEN ss[(k + 1) \div 2] ELSE sep])

\* the k-th cut of s at the positions P: before the text for k = 0, the k-th
\* least position of P, after the text past the last
CutAt(P, k, n) ==
  IF k = 0 THEN 0
  ELSE IF k > Cardinality(P) THEN n + 1
  ELSE CHOOSE p \in P : Cardinality({q \in P : q < p}) = k - 1

\* the pieces of s between the positions P, always at least one piece
SplitAt(s, P) ==
  [k \in 1..(Cardinality(P) + 1) |->
     SubSeq(s, CutAt(P, k - 1, Len(s)) + 1, CutAt(P, k, Len(s)) - 1)]

\* str.split(sep) for a one-character separator
Split(s, sep) == SplitAt(s, {i \in 1..Len(s) : s[i] = sep})

\* str.lstrip(chars), str.rstrip(chars), str.strip(chars) for the characters S
LStripSet(s, S) == SubSeq(s, MinOr({i \in 1..Len(s) : s[i] \notin S}, Len(s) + 1), Len(s))

RStripSet(s, S) == SubSeq(s, 1, MaxOr({i \in 1..Len(s) : s[i] \notin S}, 0))

StripSet(s, S) == RStripSet(LStripSet(s, S), S)

\* str.strip() / str.rstrip() with no argument remove Unicode whitespace
strip(s) == StripSet(s, SpaceChars)
rstrip(s) == RStripSet(s, SpaceChars)

StartsWith(s, p) == Len(s) >= Len(p) /\ SubSeq(s, 1, Len(p)) = p

\* "needle in haystack" of Python strings
Contains(s, p) ==
  \E i \in 0..(Len(s) - Len(p)) : SubSeq(s, i + 1, i + Len(p)) = p

\* str.replace(old, new) for a one-character old
ReplaceChar(s, old, new) ==
  Flatten([i \in 1..Len(s) |-> IF s[i] = old THEN new ELSE <<s[i]>>])

RemoveChars(s, S) ==
  Flatten([i \in 1..Len(s) |-> IF s[i] \in S THEN <<>> ELSE <<s[i]>>])

-----------------------------------------------------------------------------
(* Regular expressions: syntax *)

Cls(S) == [t |-> "cls", s |-> S]
Chr(c) == Cls({c})
Cat(xs) == [t |-> "cat", xs |-> xs]
Alt(xs) == [t |-> "alt", xs |-> xs]
\* x{lo,hi}, greedy; hi < 0 is "no upper limit"
Rep(x, lo, hi) == [t |-> "rep", x |-> x, lo |-> lo, hi |-> hi]
Star(x) == Rep(x, 0, 0 - 1)
Plus(x) == Rep(x, 1, 0 - 1)
Opt(x) == Rep(x, 0, 1)
Grp(k, x) == [t |-> "grp", k |-> k, x |-> x]
Ref(k) == [t |-> "ref", k |-> k]
Bos == [t |-> "bos"]      \* ^ without re.MULTILINE
BolM == [t |-> "bolm"]    \* ^ with re.MULTILINE
Eos == [t |-> "eos"]      \* $ without re.MULTILINE
EolM == [t |-> "eolm"]    \* $ with re.MULTILINE
Wb == [t |-> "wb"]        \* \b

\* a literal string
Str(cs) == [t |-> "lit", cs |-> cs]

S_ == Cls(SpaceChars)
D_ == Cls(Digits)
W_ == Cls(WordChars)
Dot == Cls(Not({NL}))

NoGroups == <<<<0, 0>>, <<0, 0>>>>

(* Regular expressions: matching.  M returns every way the node can match  *)
(* at offset i, as records [e: end offset, g: groups], in the order in     *)
(* which a backtracking matcher tries them.                                *)

IsWordAt(s, i) == i >= 1 /\ i <= Len(s) /\ s[i] \in WordChars

\* A configuration of the backtracking matcher: the patterns still to match
\* (k), the offset reached (i) and the groups captured (g).  Step gives the
\* configurations that follow when the first pattern of k is taken up, in the
\* order the matcher tries them.  Two patterns exist only inside k: "again"
\* is the rest of a repetition after one round that started at offset from
\* (it fails when the round matched the empty string), "close" records the
\* span of group k.
Cfg(k, i, g) == [k |-> k, i |-> i, g |-> g]

\* the number of characters of S that follow offset i, at most hi of them
\* where hi >= 0
RunLen(s, i, S, hi) ==
  MaxOr({m \in 0..(IF hi >= 0 /\ hi < Len(s) - i THEN hi ELSE Len(s) - i) :
           \A j \in 1..m : s[i + j] \in S}, 0)

\* a greedy repetition of a character class that can take n characters:
\* n of them first, then one fewer, down to lo
ClsRepCfgs(lo, n, k, i, g) ==
  IF n < lo THEN <<>> ELSE [j \in 1..(n - lo + 1) |-> Cfg(k, i + n - j + 1, g)]

\* a greedy repetition of another pattern: one more round first, then none
RepCfgs(re, k, i, g) ==
  (IF re.hi # 0
   THEN <<Cfg(<<re.x, [t |-> "again", x |-> re.x, from |-> i,
                       lo |-> IF re.lo > 0 THEN re.lo - 1 ELSE 0,
                       hi |-> IF re.hi > 0 THEN re.hi - 1 ELSE re.hi]>> \o k, i, g)>>
   ELSE <<>>)
  \o (IF re.lo = 0 THEN <<Cfg(k, i, g)>> ELSE <<>>)

Step(re, k, s, i, g) ==
  CASE re.t = "cls" ->
         IF i < Len(s) /\ s[i + 1] \in re.s THEN <<Cfg(k, i + 1, g)>> ELSE <<>>
    [] re.t = "lit" ->
         IF StartsWith(SubSeq(s, i + 1, Len(s)), re.cs)
         THEN <<Cfg(k, i + Len(re.cs), g)>> ELSE <<>>
    [] re.t = "cat" -> <<Cfg(re.xs \o k, i, g)>>
    [] re.t = "alt" -> [a \in 1..Len(re.xs) |-> Cfg(<<re.xs[a]>> \o k, i, g)]
    [] re.t = "rep" ->
         IF re.x.t = "cls" THEN ClsRepCfgs(re.lo, RunLen(s, i, re.x.s, re.hi), k, i, g)
         ELSE RepCfgs(re, k, i, g)
    [] re.t = "again" -> IF i > re.from THEN RepCfgs(re, k, i, g) ELSE <<>>
    [] re.t = "grp" ->
         <<Cfg(<<re.x, [t |-> "close", k |-> re.k, from |-> i]>> \o k, i, g)>>
    [] re.t = "close" -> <<Cfg(k, i, [g EXCEPT ![re.k] = <<re.from, i>>])>>
    [] re.t = "ref" ->
         IF StartsWith(SubSeq(s, i + 1, Len(s)), SubSeq(s, g[re.k][1] + 1, g[re.k][2]))
         THEN <<Cfg(k, i + g[re.k][2] - g[re.k][1], g)>> ELSE <<>>
    [] re.t = "bos" -> IF i = 0 THEN <<Cfg(k, i, g)>> ELSE <<>>
    [] re.t = "bolm" -> IF i = 0 \/ s[i] = NL THEN <<Cfg(k, i, g)>> ELSE <<>>
    [] re.t = "eos" ->
         IF i = Len(s) \/ (i = Len(s) - 1 /\ s[Len(s)] = NL)
         THEN <<Cfg(k, i, g)>> ELSE <<>>
    [] re.t = "eolm" ->
         IF i = Len(s) \/ s[i + 1] = NL THEN <<Cfg(k, i, g)>> ELSE <<>>
    [] re.t = "wb" ->
         IF IsWordAt(s, i) # IsWordAt(s, i + 1) THEN <<Cfg(k, i, g)>> ELSE <<>>

\* the matches reached from the configurations cs[lo], ..., cs[hi], depth
\* first (the range is taken by halves)
RECURSIVE Run(_, _, _, _)
RECURSIVE RunNext(_, _)

Run(cs, lo, hi, s) ==
  CASE lo > hi -> <<>>
    [] lo < hi -> Run(cs, lo, (lo + hi) \div 2, s) \o Run(cs, (lo + hi) \div 2 + 1, hi, s)
    [] lo = hi /\ cs[lo].k = <<>> -> <<[e |-> cs[lo].i, g |-> cs[lo].g]>>
    [] OTHER -> RunNext(Step(Head(cs[lo].k), Tail(cs[lo].k), s, cs[lo].i, cs[lo].g), s)

RunNext(cs, s) == Run(cs, 1, Len(cs), s)

\* the ways pattern re matches s from offset i with groups g, in the order
\* a backtracking matcher tries them
M(re, s, i, g) == Run(<<Cfg(<<re>>, i, g)>>, 1, 1, s)

\* re.match(pattern, s): a match at the start of s
ReMatch(re, s) == M(re, s, 0, NoGroups) # <<>>

\* re.fullmatch(pattern, s): some way of matching at the start ends at the end
ReFullMatch(re, s) ==
  \E rs \in {M(re, s, 0, NoGroups)} : \E j \in 1..Len(rs) : rs[j].e = Len(s)

\* first offset >= from at which the pattern matches, or -1
SearchFrom(re, s, from) ==
  MinOr({a \in from..Len(s) : M(re, s, a, NoGroups) # <<>>}, 0 - 1)

\* re.search(pattern, s)
ReSearch(re, s) == SearchFrom(re, s, 0) >= 0

\* the group k of a match (m.group(k))
GroupOf(s, m, k) == SubSeq(s, m.g[k][1] + 1, m.g[k][2])

\* a replacement template is a sequence of items: [k |-> 0, lit |-> chars]
\* is literal text, [k |-> n, lit |-> <<>>] is \n
TLit(cs) == [k |-> 0, lit |-> cs]
TRef(k) == [k |-> k, lit |-> <<>>]

Expand(tpl, s, m) ==
  Flatten([j \in 1..Len(tpl) |->
             IF tpl[j].k = 0 THEN tpl[j].lit ELSE GroupOf(s, m, tpl[j].k)])

\* re.sub(pattern, template, s) from offset pos on: leftmost non-overlapping
\* matches; an empty match is replaced and the scan moves one character on.
\* SubNext is given the offset a of the next match, SubEmit the match m.
RECURSIVE SubFrom(_, _, _, _)
RECURSIVE SubNext(_, _, _, _, _)
RECURSIVE SubEmit(_, _, _, _, _, _)

SubFrom(re, tpl, s, pos) ==
  IF pos > Len(s) THEN <<>> ELSE SubNext(re, tpl, s, pos, SearchFrom(re, s, pos))

SubNext(re, tpl, s, pos, a) ==
  IF a < 0 THEN SubSeq(s, pos + 1, Len(s))
  ELSE SubEmit(re, tpl, s, pos, a, Head(M(re, s, a, NoGroups)))

SubEmit(re, tpl, s, pos, a, m) ==
  SubSeq(s, pos + 1, a) \o Expand(tpl, s, m)
  \o (IF m.e = a /\ a < Len(s) THEN <<s[a + 1]>> ELSE <<>>)
  \o SubFrom(re, tpl, s, IF m.e > a THEN m.e ELSE a + 1)

ReSub(re, tpl, s) == SubFrom(re, tpl, s, 0)

-----------------------------------------------------------------------------
(* Line classifier *)

AsciiLetter_ == Cls(Letters \cup {"_"})
WordDot == Cls(WordChars \cup {"."})

LIST_MARKER_PATTERN ==
  Cat(<<Bos, Star(S_),
        Alt(<<Cls({"-", "*", "+", "u2022"}), Cat(<<Plus(D_), Cls({".", ")"})>>)>>),
        Plus(S_)>>)

CODE_STRONG_PATTERNS == <<
  Cat(<<Bos, Alt(<<
    Cat(<<Str(<<"f", "r", "o", "m">>), Plus(S_), AsciiLetter_, Star(WordDot),
          Plus(S_), Str(<<"i", "m", "p", "o", "r", "t">>), Wb>>),
    Cat(<<Str(<<"i", "m", "p", "o", "r", "t">>), Plus(S_), AsciiLetter_,
          Star(WordDot)>>)>>)>>),
  Cat(<<Bos, Alt(<<Str(<<"c", "l", "a", "s", "s">>), Str(<<"d", "e", "f">>)>>),
        Plus(S_), AsciiLetter_, Star(W_)>>),
  Cat(<<Bos, Alt(<<Str(<<"i", "f">>), Str(<<"e", "l", "i", "f">>),
                   Str(<<"e", "l", "s", "e">>), Str(<<"f", "o", "r">>),
                   Str(<<"w", "h", "i", "l", "e">>), Str(<<"t", "r", "y">>),
                   Str(<<"e", "x", "c", "e", "p", "t">>),
                   Str(<<"f", "i", "n", "a", "l", "l", "y">>),
                   Str(<<"w", "i", "t", "h">>)>>),
        Wb, Star(Dot), Chr(":"), Star(S_), Eos>>),
  Cat(<<Bos, Alt(<<Str(<<"r", "e", "t", "u", "r", "n">>),
                   Str(<<"y", "i", "e", "l", "d">>),
                   Str(<<"b", "r", "e", "a", "k">>),
                   Str(<<"c", "o", "n", "t", "i", "n", "u", "e">>),
                   Str(<<"p", "a", "s", "s">>)>>), Wb>>),
  Cat(<<Bos, AsciiLetter_, Star(Cls(Letters \cup Digits \cup {"_"})), Star(S_),
        Chr("="), Star(S_), Plus(Dot)>>),
  Cat(<<Bos, AsciiLetter_, Star(WordDot), Chr("("), Star(Cls(Not({")"}))),
        Chr(")"), Star(S_), Eos>>),
  Cat(<<Bos, Chr("@"), AsciiLetter_, Star(WordDot)>>) >>

CODE_SYMBOL_PATTERN == Cls({"{", "}", "[", "]", "=", ";"})
CN_PUNCT_HINT_PATTERN ==
  Cls({"uFF0C", "u3002", "uFF01", "uFF1F", "uFF1B", "uFF1A", "u3001", "u201C",
       "u201D", "u2018", "u2019", "uFF08", "uFF09", "u3010", "u3011", "u300A",
       "u300B"})
FENCED_CODE_PATTERN == Cat(<<Bos, Star(S_), Str(<<"u0060", "u0060", "u0060">>)>>)

MatchesStrong(stripped) ==
  \E k \in 1..Len(CODE_STRONG_PATTERNS) : ReMatch(CODE_STRONG_PATTERNS[k], stripped)

\* the symbol rule without the CJK punctuation hint
is_code_line_candidate_no_hint(line) ==
  LET stripped == strip(line) IN
  IF stripped = <<>> THEN FALSE
  ELSE IF MatchesStrong(stripped) THEN TRUE
  ELSE ReSearch(CODE_SYMBOL_PATTERN, stripped)

is_code_line_candidate(line) ==
  LET stripped == strip(line) IN
  IF stripped = <<>> THEN FALSE
  ELSE IF MatchesStrong(stripped) THEN TRUE
  ELSE ReSearch(CODE_SYMBOL_PATTERN, stripped)
       /\ ~ReSearch(CN_PUNCT_HINT_PATTERN, stripped)

IsFenceLine(raw) == ReMatch(FENCED_CODE_PATTERN, strip(raw))

IsIndented(raw) == StartsWith(raw, <<SP, SP, SP, SP>>) \/ StartsWith(raw, <<TAB>>)

\* The first loop of detect_code_line_indexes.  Line numbers count from 1.
\* A fence delimiter toggles in_fenced_code, so a line is inside a fenced
\* block when an odd number of delimiters precedes it.
FenceLines(lines) == {k \in 1..Len(lines) : IsFenceLine(lines[k])}

InFence(fences, k) == Cardinality({j \in fences : j < k}) % 2 = 1

\* the delimiters are added like the lines between them
CodeScan_with_delimiters(lines, fences) ==
  {k \in 1..Len(lines) :
     k \in fences \/ InFence(fences, k) \/ is_code_line_candidate(lines[k])}

\* code_indexes after the first loop: the lines inside a fenced block and the
\* code candidates outside
CodeScan(lines, fences) ==
  {k \in 1..Len(lines) :
     k \notin fences /\ (InFence(fences, k) \/ is_code_line_candidate(lines[k]))}

\* weak_indexes after the first loop: outside a fenced block, not blank, not a
\* candidate, and indented or starting with "#"
WeakScan(lines, fences) ==
  {k \in 1..Len(lines) :
     /\ k \notin fences
     /\ ~InFence(fences, k)
     /\ strip(lines[k]) # <<>>
     /\ ~is_code_line_candidate(lines[k])
     /\ (IsIndented(lines[k]) \/ StartsWith(strip(lines[k]), <<"#">>))}

ScanLines(lines, fences) ==
  [code |-> CodeScan(lines, fences), weak |-> WeakScan(lines, fences), changed |-> TRUE]

\* the promotion test with near_code alone
Promotable_adjacent_only(lines, code, index) ==
  (index - 1 \in code) \/ (index + 1 \in code)

\* The promotion test of one weak index against the current code set
Promotable(lines, code, index) ==
  LET near_code == (index - 1 \in code) \/ (index + 1 \in code)
      skip_blank_before ==
        /\ index - 2 \in code
        /\ index - 1 >= 1
        /\ strip(lines[index - 1]) = <<>>
      skip_blank_after ==
        /\ index + 2 \in code
        /\ index + 1 <= Len(lines)
        /\ strip(lines[index + 1]) = <<>>
  IN near_code \/ skip_blank_before \/ skip_blank_after

\* the index is added to code_indexes and left in weak_indexes
PromoteOne_keeps_weak(lines, st, index) ==
  IF Promotable(lines, st.code, index)
  THEN [st EXCEPT !.code = @ \cup {index}, !.changed = TRUE]
  ELSE st

\* The body of "for index in list(weak_indexes)" for one index
PromoteOne(lines, st, index) ==
  IF Promotable(lines, st.code, index)
  THEN [st EXCEPT !.code = @ \cup {index}, !.weak = @ \ {index}, !.changed = TRUE]
  ELSE st

\* One pass of "for index in list(weak_indexes)" over the snapshot todo,
\* least index first
RECURSIVE PromotePass(_, _, _)
PromotePass(lines, st, todo) ==
  IF todo = {} THEN st
  ELSE LET index == CHOOSE i \in todo : \A j \in todo : i <= j
       IN PromotePass(lines, PromoteOne(lines, st, index), todo \ {index})

\* The orders in which a set can be listed: list(weak_indexes) gives the
\* indexes in the order of the hash table, which the language leaves open
Orders(S) ==
  {f \in [1..Cardinality(S) -> S] : \A i, j \in 1..Cardinality(S) : f[i] = f[j] => i = j}

\* One pass of the for loop over the snapshot in the given order, from its
\* i-th index on
RECURSIVE PromoteInOrder(_, _, _, _)
PromoteInOrder(lines, st, order, i) ==
  IF i > Len(order) THEN st
  ELSE PromoteInOrder(lines, PromoteOne(lines, st, order[i]), order, i + 1)

RECURSIVE PromoteLoop(_, _)
PromoteLoop(lines, st) ==
  IF ~st.changed THEN st
  ELSE PromoteLoop(lines, PromotePass(lines, [st EXCEPT !.changed = FALSE], st.weak))

detect_code_line_indexes(lines) ==
  PromoteLoop(lines, ScanLines(lines, FenceLines(lines))).code

-----------------------------------------------------------------------------
(* Table engine *)

\* [part.strip() for part in parts]
StripEach(parts) == [k \in 1..Len(parts) |-> strip(parts[k])]

\* [part for part in parts if part]
NonEmpty(parts) ==
  Flatten([k \in 1..Len(parts) |-> IF parts[k] # <<>> THEN <<parts[k]>> ELSE <<>>])

is_table_row_line(line) ==
  IF "|" \notin {line[i] : i \in 1..Len(line)} THEN FALSE
  ELSE Len(NonEmpty(StripEach(Split(line, "|")))) >= 2

parse_table_row(line) ==
  StripEach(Split(StripSet(strip(line), {"|"}), "|"))

format_table_row(cells) == <<"|", SP>> \o Join(<<SP, "|", SP>>, cells) \o <<SP, "|">>

\* a separator row of two dashes per cell, which is not read as a separator
format_table_separator_short(col_count) ==
  format_table_row([i \in 1..col_count |-> <<"-", "-">>])

format_table_separator(col_count) ==
  format_table_row([i \in 1..col_count |-> <<"-", "-", "-">>])

SeparatorCell == Cat(<<Opt(Chr(":")), Rep(Chr("-"), 3, 0 - 1), Opt(Chr(":"))>>)

is_table_separator_line(line) ==
  LET stripped == strip(line) IN
  IF "|" \notin {stripped[i] : i \in 1..Len(stripped)} THEN FALSE
  ELSE LET cells == StripEach(Split(StripSet(stripped, {"|"}), "|")) IN
       \A k \in 1..Len(cells) :
         cells[k] # <<>> /\ ReFullMatch(SeparatorCell, cells[k])

HEADER_HINTS == {
  <<"u7F51", "u7AD9">>, <<"u7F51", "u5740">>,
  <<"u6838", "u5FC3", "u7528", "u9014">>, <<"u4F18", "u52BF">>,
  <<"u7528", "u9014">>, <<"u8BF4", "u660E">>, <<"u5907", "u6CE8">>,
  <<"u7C7B", "u578B">>, <<"u540D", "u79F0">>, <<"u6807", "u9898">>,
  <<"u5E73", "u53F0">>, <<"l", "i", "n", "k">>, <<"u", "r", "l">>,
  <<"w", "e", "b", "s", "i", "t", "e">>, <<"p", "u", "r", "p", "o", "s", "e">>,
  <<"u", "s", "a", "g", "e">>, <<"a", "d", "v", "a", "n", "t", "a", "g", "e">>,
  <<"b", "e", "n", "e", "f", "i", "t">> }

TITLE_HINTS == {
  <<"u7F51", "u7AD9">>, <<"u540D", "u79F0">>, <<"u6807", "u9898">>,
  <<"u5E73", "u53F0">>, <<"u7AD9", "u70B9">>, <<"u8D44", "u6E90">> }

URL_HINTS == {
  <<"u7F51", "u5740">>, <<"u94FE", "u63A5">>, <<"u", "r", "l">>,
  <<"U", "R", "L">>, <<"L", "i", "n", "k">>, <<"l", "i", "n", "k">> }

\* str.lower()
LowerChar(c) == CASE c = "U" -> "u" [] c = "R" -> "r" [] c = "L" -> "l" [] OTHER -> c
lower(s) == [i \in 1..Len(s) |-> LowerChar(s[i])]

HeaderShortCell == 10

is_probable_header(header, data_rows) ==
  LET header_text == lower(strip(Join(<<SP>>, header))) IN
  IF \E hint \in HEADER_HINTS : Contains(header_text, hint) THEN TRUE
  ELSE IF \E k \in 1..Len(header) : Contains(lower(header[k]), <<"h", "t", "t", "p">>)
  THEN FALSE
  ELSE IF (\A k \in 1..Len(header) :
             strip(header[k]) # <<>> => Len(strip(header[k])) <= HeaderShortCell)
          /\ Len(data_rows) >= 1
  THEN TRUE
  ELSE FALSE

\* the parsed rows of the lines that are not separator lines
DataRows(lines) ==
  Flatten([k \in 1..Len(lines) |->
             IF is_table_separator_line(lines[k]) THEN <<>>
             ELSE <<parse_table_row(lines[k])>>])

parse_table_block(lines) ==
  The({IF rows = <<>> THEN [rows |-> <<>>, has_header |-> FALSE]
       ELSE [rows |-> rows,
             has_header |->
               (\E k \in 1..Len(lines) : is_table_separator_line(lines[k]))
               \/ is_probable_header(rows[1], Tail(rows))] :
         rows \in {DataRows(lines)}})

\* max(len(row) for row in rows), for a non-empty rows
MaxLen(rows) ==
  CHOOSE n \in {Len(rows[k]) : k \in 1..Len(rows)} :
    \A k \in 1..Len(rows) : Len(rows[k]) <= n

\* a row left as short as it was
Pad_none(row, n) == row

Pad(row, n) == row \o [i \in 1..(n - Len(row)) |-> <<>>]

\* the separator row inserted for a header only
NormalizedRows_header_only(rows, has_header, col_count) ==
  IF has_header
  THEN <<format_table_row(Pad(rows[1], col_count)), format_table_separator(col_count)>>
       \o [k \in 1..(Len(rows) - 1) |-> format_table_row(Pad(rows[k + 1], col_count))]
  ELSE [k \in 1..Len(rows) |-> format_table_row(Pad(rows[k], col_count))]

\* the formatted rows, with the separator row after the first one when
\* has_header or there are two rows or more
NormalizedRows(rows, has_header, col_count) ==
  IF has_header \/ Len(rows) >= 2
  THEN <<format_table_row(Pad(rows[1], col_count)), format_table_separator(col_count)>>
       \o [k \in 1..(Len(rows) - 1) |-> format_table_row(Pad(rows[k + 1], col_count))]
  ELSE [k \in 1..Len(rows) |-> format_table_row(Pad(rows[k], col_count))]

normalize_table_block(lines) ==
  The({IF parsed.rows = <<>> THEN lines
       ELSE NormalizedRows(parsed.rows, parsed.has_header, MaxLen(parsed.rows)) :
         parsed \in {parse_table_block(lines)}})

\* Index of the first header cell containing one of the hints, 0 for None
FirstHintIndex(cells, hints) ==
  LET hit == {k \in 1..Len(cells) : \E h \in hints : Contains(cells[k], h)} IN
  IF hit = {} THEN 0 ELSE CHOOSE k \in hit : \A j \in hit : k <= j

LABEL_SEP == <<"uFF1A">>
DETAIL_SEP == <<"uFF1B">>
BULLET == <<"u2022", SP>>

\* label：value for a labelled cell, value alone otherwise; empty values and
\* the columns in skip are left out
Details(header_clean, row_clean, skip) ==
  Flatten([k \in 1..(IF Len(header_clean) <= Len(row_clean) THEN Len(header_clean)
                     ELSE Len(row_clean)) |->
             IF k \in skip \/ row_clean[k] = <<>> THEN <<>>
             ELSE IF header_clean[k] # <<>>
             THEN <<header_clean[k] \o LABEL_SEP \o row_clean[k]>>
             ELSE <<row_clean[k]>>])

\* the bullet of a row, given its title, url, details and parts
BulletOf(title, url, details, parts) ==
  IF title # <<>>
  THEN BULLET \o title
       \o (IF url # <<>> THEN <<"uFF08">> \o url \o <<"uFF09">> ELSE <<>>)
       \o (IF details # <<>>
           THEN <<SP, "u2014", SP>> \o Join(DETAIL_SEP, details) ELSE <<>>)
  ELSE IF parts = <<>> THEN <<>>
  ELSE BULLET \o Join(DETAIL_SEP, parts)

\* cells[index], or "" when index is 0 (None)
CellAt(cells, index) == IF index # 0 THEN cells[index] ELSE <<>>

BulletOfClean(header_clean, row_clean, title_index, url_index) ==
  BulletOf(CellAt(row_clean, title_index), CellAt(row_clean, url_index),
           Details(header_clean, row_clean, {title_index, url_index}),
           Details(header_clean, row_clean, {}))

format_table_bullet(header, row) ==
  The({BulletOfClean(header_clean, StripEach(row),
                     FirstHintIndex(header_clean, TITLE_HINTS),
                     FirstHintIndex([k \in 1..Len(header_clean) |->
                                       lower(header_clean[k])],
                                    {lower(h) : h \in URL_HINTS})) :
         header_clean \in {StripEach(header)}})

\* table_block_to_bullets raises ValueError when max() is given no rows: a
\* block with a header and no data row
table_block_raises(lines) ==
  \E parsed \in {parse_table_block(lines)} :
    parsed.rows # <<>> /\ parsed.has_header /\ parsed.rows[1] # <<>>
    /\ Tail(parsed.rows) = <<>>

\* the bullets of the data rows under header, all padded to max_cols
BulletsOf(header, data_rows, max_cols) ==
  NonEmpty([k \in 1..Len(data_rows) |->
              format_table_bullet(Pad(header, max_cols), Pad(data_rows[k], max_cols))])

\* max(len(header), *(len(row) for row in data_rows)) where there is a header,
\* max(len(row) for row in data_rows) where there is none
MaxCols(header, data_rows) ==
  IF header # <<>> /\ Len(header) >= MaxLen(data_rows) THEN Len(header)
  ELSE MaxLen(data_rows)

BulletsOfRows(header, data_rows) ==
  BulletsOf(header, data_rows, MaxCols(header, data_rows))

table_block_to_bullets(lines) ==
  The({IF parsed.rows = <<>> THEN lines
       ELSE IF parsed.has_header
       THEN BulletsOfRows(parsed.rows[1], Tail(parsed.rows))
       ELSE BulletsOfRows(<<>>, parsed.rows) :
         parsed \in {parse_table_block(lines)}})

\* The scan shared by normalize_table_blocks and convert_table_blocks_to_bullets:
\* maximal runs of table-row lines, as <<first, last>> line numbers
\* the last line of the run of table rows that starts at index
BlockEnd(lines, index) ==
  MinOr({k \in index..Len(lines) :
           k = Len(lines) \/ ~is_table_row_line(lines[k + 1])}, Len(lines))

\* the last line of the block that starts at index, or index itself where
\* the line is not a table row
LastOf(lines, index) ==
  IF is_table_row_line(lines[index]) THEN BlockEnd(lines, index) ELSE index

\* what the lines index..last become
BlockOut(lines, index, last, keep) ==
  IF ~is_table_row_line(lines[index]) THEN <<lines[index]>>
  ELSE IF keep THEN normalize_table_block(SubSeq(lines, index, last))
  ELSE table_block_to_bullets(SubSeq(lines, index, last))

RECURSIVE MapBlocks(_, _, _)
MapBlocks(lines, index, keep) ==
  IF index > Len(lines) THEN <<>>
  ELSE The({BlockOut(lines, index, last, keep) \o MapBlocks(lines, last + 1, keep) :
              last \in {LastOf(lines, index)}})

RECURSIVE AnyBlockRaises(_, _)
AnyBlockRaises(lines, index) ==
  IF index > Len(lines) THEN FALSE
  ELSE \E last \in {LastOf(lines, index)} :
         (is_table_row_line(lines[index])
          /\ table_block_raises(SubSeq(lines, index, last)))
         \/ AnyBlockRaises(lines, last + 1)

normalize_table_blocks(text) == Join(<<NL>>, MapBlocks(Split(text, NL), 1, TRUE))

convert_table_blocks_to_bullets(text) ==
  Join(<<NL>>, MapBlocks(Split(text, NL), 1, FALSE))

convert_table_blocks_raises(text) == AnyBlockRaises(Split(text, NL), 1)

-----------------------------------------------------------------------------
(* Markdown stripper *)

MD_HEADING == Cat(<<BolM, Rep(S_, 0, 3), Rep(Chr("#"), 1, 6), Star(S_)>>)
MD_QUOTE == Cat(<<BolM, Star(S_), Chr(">"), Opt(S_)>>)
MD_RULE ==
  Cat(<<BolM, Star(S_), Grp(1, Cls({"-", "*", "_"})),
        Rep(Cat(<<Star(S_), Ref(1)>>), 2, 0 - 1), Star(S_), EolM>>)
MD_FENCE ==
  Cat(<<Str(<<"u0060", "u0060", "u0060">>),
        Opt(Plus(Cls(WordChars \cup {"+", "-"}))), Opt(Chr(NL))>>)
MD_CODE == Cat(<<Chr("u0060"), Grp(1, Plus(Cls(Not({"u0060"})))), Chr("u0060")>>)
MD_BOLD == Cat(<<Str(<<"*", "*">>), Grp(1, Plus(Cls(Not({"*"})))), Str(<<"*", "*">>)>>)
MD_UNDER2 == Cat(<<Str(<<"_", "_">>), Grp(1, Plus(Cls(Not({"_"})))), Str(<<"_", "_">>)>>)
MD_ITALIC == Cat(<<Chr("*"), Grp(1, Plus(Cls(Not({"*"})))), Chr("*")>>)
MD_UNDER1 == Cat(<<Chr("_"), Grp(1, Plus(Cls(Not({"_"})))), Chr("_")>>)
MD_IMAGE ==
  Cat(<<Chr("!"), Chr("["), Star(Cls(Not({"]"}))), Chr("]"), Chr("("),
        Star(Cls(Not({")"}))), Chr(")")>>)
MD_LINK ==
  Cat(<<Chr("["), Grp(1, Plus(Cls(Not({"]"})))), Chr("]"), Chr("("),
        Star(Cls(Not({")"}))), Chr(")")>>)
MD_BULLET == Cat(<<BolM, Star(S_), Cls({"-", "*", "+"}), Plus(S_)>>)
MD_ORDERED == Cat(<<BolM, Star(S_), Grp(1, Plus(D_)), Cls({".", ")"}), Plus(S_)>>)

\* the substitutions of _strip_markdown_inline, in order
MARKDOWN_RULES == <<
  [re |-> MD_HEADING, tpl |-> <<>>],
  [re |-> MD_QUOTE, tpl |-> <<>>],
  [re |-> MD_RULE, tpl |-> <<>>],
  [re |-> MD_FENCE, tpl |-> <<>>],
  [re |-> MD_CODE, tpl |-> <<TRef(1)>>],
  [re |-> MD_BOLD, tpl |-> <<TRef(1)>>],
  [re |-> MD_UNDER2, tpl |-> <<TRef(1)>>],
  [re |-> MD_ITALIC, tpl |-> <<TRef(1)>>],
  [re |-> MD_UNDER1, tpl |-> <<TRef(1)>>],
  [re |-> MD_IMAGE, tpl |-> <<>>],
  [re |-> MD_LINK, tpl |-> <<TRef(1)>>],
  [re |-> MD_BULLET, tpl |-> <<TLit(BULLET)>>],
  [re |-> MD_ORDERED, tpl |-> <<TRef(1), TLit(<<".", SP>>)>>] >>

\* text = re.sub(...) for each rule in turn
RECURSIVE SubAll(_, _)
SubAll(rules, s) ==
  IF rules = <<>> THEN s
  ELSE SubAll(Tail(rules), ReSub(Head(rules).re, Head(rules).tpl, s))

\* the substitutions up to the inline code rule: no emphasis is unwrapped
strip_markdown_inline_no_emphasis(text) == SubAll(SubSeq(MARKDOWN_RULES, 1, 5), text)

strip_markdown_inline(text) == SubAll(MARKDOWN_RULES, text)

\* "if non_table_parts: result_lines.append(_strip_markdown_inline(...))"
FlushSpan(parts) ==
  IF parts # <<>> THEN <<strip_markdown_inline(Join(<<NL>>, parts))>> ELSE <<>>

\* The second loop of strip_markdown from line i on; parts holds the free
\* lines collected since the last protected line
RECURSIVE StripSpans(_, _, _, _)
StripSpans(lines, protected, i, parts) ==
  IF i > Len(lines) THEN FlushSpan(parts)
  ELSE (IF i \in protected THEN FlushSpan(parts) \o <<lines[i]>> ELSE <<>>)
       \o StripSpans(lines, protected, i + 1,
                     IF i \in protected THEN <<>> ELSE Append(parts, lines[i]))

\* the substitutions applied to the whole text, protected lines included
strip_markdown_unprotected(text, keep_tables) == strip_markdown_inline(text)

strip_markdown(text, keep_tables) ==
  LET lines == Split(text, NL)
      table_lines == {i \in 1..Len(lines) :
                        is_table_row_line(lines[i]) \/ is_table_separator_line(lines[i])}
      code_lines == detect_code_line_indexes(lines)
  IN Join(<<NL>>, StripSpans(lines, table_lines \cup code_lines, 1, <<>>))

-----------------------------------------------------------------------------
(* Punctuation / whitespace normalizer *)

\* unicodedata.normalize("NFKC", line), character by character: of the
\* alphabet only these characters have a compatibility decomposition
NFKCChar(c) ==
  CASE c = NBSP -> <<SP>>
    [] c = IDSP -> <<SP>>
    [] c = "u2026" -> <<".", ".", ".">>
    [] c = "uFF01" -> <<"!">>
    [] c = "uFF08" -> <<"(">>
    [] c = "uFF09" -> <<")">>
    [] c = "uFF0C" -> <<",">>
    [] c = "uFF1A" -> <<":">>
    [] c = "uFF1B" -> <<";">>
    [] c = "uFF1F" -> <<"?">>
    [] OTHER -> <<c>>

PUNCT_MAP(c) ==
  CASE c = "u201C" -> <<"u0022">>
    [] c = "u201D" -> <<"u0022">>
    [] c = "u2018" -> <<"'">>
    [] c = "u2019" -> <<"'">>
    [] c = "u2014" -> <<"-">>
    [] c = "u2013" -> <<"-">>
    [] c = "u2026" -> <<".", ".", ".">>
    [] c = "u3010" -> <<"[">>
    [] c = "u3011" -> <<"]">>
    [] c = "uFF08" -> <<"(">>
    [] c = "uFF09" -> <<")">>
    [] c = "uFF0C" -> <<",">>
    [] c = "u3002" -> <<".">>
    [] c = "uFF1B" -> <<";">>
    [] c = "uFF1A" -> <<":">>
    [] c = "uFF01" -> <<"!">>
    [] c = "uFF1F" -> <<"?">>
    [] c = "u3001" -> <<",">>
    [] OTHER -> <<c>>

\* No replacement of PUNCT_MAP produces a key of PUNCT_MAP, so the chain of
\* str.replace calls is one pass over the characters
PunctMapped(s) == Flatten([i \in 1..Len(s) |-> PUNCT_MAP(s[i])])

NFKC(s) == Flatten([i \in 1..Len(s) |-> NFKCChar(s[i])])

NormalizePunctLine(line) == PunctMapped(NFKC(line))

\* the pass that rewrites the Code lines as well
normalize_punctuation_every_line(text) ==
  LET lines == Split(text, NL)
  IN Join(<<NL>>, [i \in 1..Len(lines) |-> NormalizePunctLine(lines[i])])

normalize_punctuation(text) ==
  LET lines == Split(text, NL)
      code_lines == detect_code_line_indexes(lines)
  IN Join(<<NL>>, [i \in 1..Len(lines) |->
                     IF i \in code_lines THEN lines[i]
                     ELSE NormalizePunctLine(lines[i])])

EMOJI_PATTERN == Plus(Cls(EmojiChars))

WS_RUN == Plus(Cls({SP, TAB}))
WS_BEFORE_PUNCT ==
  Cat(<<Plus(Chr(SP)), Grp(1, Cls({",", ".", ";", ":", "!", "?"}))>>)
BLANK_RUN == Rep(Chr(NL), 3, 0 - 1)

\* runs of newlines left as they are
CollapseBlankRuns_none(text) == text

\* re.sub(r"\n{3,}", "\n\n", text)
CollapseBlankRuns(text) == ReSub(BLANK_RUN, <<TLit(<<NL, NL>>)>>, text)

NormalizeWhitespaceLine(raw, is_code) ==
  LET line == ReplaceChar(ReplaceChar(raw, IDSP, <<SP>>), NBSP, <<SP>>) IN
  IF is_code THEN rstrip(line)
  ELSE ReSub(WS_BEFORE_PUNCT, <<TRef(1)>>, strip(ReSub(WS_RUN, <<TLit(<<SP>>)>>, line)))

normalize_whitespace(text) ==
  LET lines == Split(text, NL)
      code_lines == detect_code_line_indexes(lines)
  IN CollapseBlankRuns(
       Join(<<NL>>, [i \in 1..Len(lines) |->
                       NormalizeWhitespaceLine(lines[i], i \in code_lines)]))

-----------------------------------------------------------------------------
(* List markers, noise remover, CJK/Latin spacing *)

LM_RULE ==
  Cat(<<Bos, Grp(1, Cls({"-", "*", "_"})), Rep(Cat(<<Star(S_), Ref(1)>>), 2, 0 - 1),
        Eos>>)
LM_BULLET ==
  Cat(<<Bos, Cls({"-", "*", "+"} \cup BulletChars), Star(S_), Grp(1, Plus(Dot)), Eos>>)
LM_ORDERED ==
  Cat(<<Bos, Opt(Cls({"uFF08", "("})), Grp(1, Rep(D_, 1, 3)),
        Cls({")", "uFF09", ".", "u3001"}), Star(S_), Grp(2, Plus(Dot)), Eos>>)

FirstMatch(re, s) == Head(M(re, s, 0, NoGroups))

NormalizeListMarkerLine(raw, is_code) ==
  IF is_code THEN rstrip(raw)
  ELSE LET line == strip(raw) IN
       IF line = <<>> THEN <<>>
       ELSE IF ReMatch(LM_RULE, line) THEN line
       ELSE IF ReMatch(LM_BULLET, line)
       THEN BULLET \o strip(GroupOf(line, FirstMatch(LM_BULLET, line), 1))
       ELSE IF ReMatch(LM_ORDERED, line)
       THEN GroupOf(line, FirstMatch(LM_ORDERED, line), 1) \o <<".", SP>>
            \o strip(GroupOf(line, FirstMatch(LM_ORDERED, line), 2))
       ELSE line

normalize_list_markers(text) ==
  LET lines == Split(text, NL)
      code_lines == detect_code_line_indexes(lines)
  IN Join(<<NL>>, [i \in 1..Len(lines) |->
                     NormalizeListMarkerLine(lines[i], i \in code_lines)])

Colons == {":", "uFF1A"}
NotColon == Cls(Not(Colons \cup {NL}))
NOISE_LABEL_CHAIN ==
  Cat(<<Grp(1, Cls(Colons)),
        Rep(Cat(<<Star(S_), Rep(NotColon, 1, 20), Ref(1)>>), 2, 0 - 1)>>)
NOISE_LABEL_PREFIX ==
  Cat(<<Bos, Grp(1, Cat(<<Rep(NotColon, 1, 20), Cls(Colons)>>)), Plus(Ref(1))>>)
NOISE_PUNCT ==
  Cat(<<Grp(1, Cls({"u3002", ".", "!", "?", "uFF01", "uFF1F", "uFF1B", ";", "uFF0C",
                    ",", "u3001"})),
        Plus(Cat(<<Star(S_), Ref(1)>>))>>)
NOISE_TOKEN ==
  Cat(<<Grp(1, Rep(W_, 2, 20)),
        Plus(Cat(<<Star(S_), Cls({"uFF0C", ",", ";", "uFF1B"}), Star(S_), Ref(1)>>))>>)

RemoveNoiseLine(raw, is_code) ==
  IF is_code THEN rstrip(raw)
  ELSE LET line == strip(raw) IN
       IF line = <<>> THEN <<>>
       ELSE IF is_table_row_line(line) \/ is_table_separator_line(line) THEN line
       ELSE ReSub(NOISE_TOKEN, <<TRef(1)>>,
              ReSub(NOISE_PUNCT, <<TRef(1)>>,
                ReSub(NOISE_LABEL_PREFIX, <<TRef(1)>>,
                  ReSub(NOISE_LABEL_CHAIN, <<TRef(1)>>, line))))

remove_repeated_noise(text) ==
  LET lines == Split(text, NL)
      code_lines == detect_code_line_indexes(lines)
  IN Join(<<NL>>, [i \in 1..Len(lines) |-> RemoveNoiseLine(lines[i], i \in code_lines)])

CJK_ == Cls(CJKChars)
AlNum_ == Cls(Letters \cup Digits)
SPACING_CJK_LATIN == Cat(<<Grp(1, CJK_), Grp(2, AlNum_)>>)
SPACING_LATIN_CJK == Cat(<<Grp(1, AlNum_), Grp(2, CJK_)>>)
SPACING_LETTER_DIGIT == Cat(<<Grp(1, Cls(Letters)), Grp(2, D_)>>)
SPACING_DIGIT_LETTER == Cat(<<Grp(1, D_), Grp(2, Cls(Letters))>>)
SPACED == <<TRef(1), TLit(<<SP>>), TRef(2)>>

\* the substitutions from left to right only: a space after a CJK character
\* and after a letter, none after a digit or before a CJK character
SpacingLine_one_direction(line) ==
  ReSub(SPACING_LETTER_DIGIT, SPACED, ReSub(SPACING_CJK_LATIN, SPACED, line))

SpacingLine(line) ==
  ReSub(SPACING_DIGIT_LETTER, SPACED,
    ReSub(SPACING_LETTER_DIGIT, SPACED,
      ReSub(SPACING_LATIN_CJK, SPACED,
        ReSub(SPACING_CJK_LATIN, SPACED, line))))

normalize_cjk_latin_spacing(text) ==
  LET lines == Split(text, NL)
      code_lines == detect_code_line_indexes(lines)
  IN Join(<<NL>>, [i \in 1..Len(lines) |->
                     IF i \in code_lines THEN lines[i] ELSE SpacingLine(lines[i])])

-----------------------------------------------------------------------------
(* Paragraph reflow engine *)

PARAGRAPH_INDENT == <<IDSP, IDSP>>

LINE_START_MARKER ==
  Cat(<<Bos, Alt(<<Cat(<<Plus(D_), Cls({".", ")", "u3001"}), Plus(S_)>>),
                   Cat(<<Chr("u2022"), Plus(S_)>>),
                   Cat(<<Chr("-"), Plus(S_)>>),
                   Cat(<<Cls({"uFF08", "("}), Plus(D_), Cls({")", "uFF09"})>>)>>)>>)
TERMINAL_PUNCT_END ==
  Cat(<<Cls({".", "!", "?", ";", ":", "u3002", "uFF01", "uFF1F", "uFF1B", "uFF1A"}), Eos>>)
COLON_END == Cat(<<Cls(Colons), Eos>>)
SENTENCE_END ==
  Cat(<<Cls({"uFF0C", ",", "u3002", ".", "!", "?", "uFF01", "uFF1F"}), Eos>>)

\* re.split(r"[:\uFF1A]", s)
SplitColons(s) == SplitAt(s, {i \in 1..Len(s) : s[i] \in Colons})

\* the rule that accepts a single segment
is_heading_like_one_segment(line) ==
  LET stripped == strip(line) IN
  IF stripped = <<>> THEN FALSE
  ELSE IF ReMatch(LIST_MARKER_PATTERN, stripped) THEN FALSE
  ELSE IF is_table_row_line(stripped) THEN FALSE
  ELSE IF Len(stripped) <= 30 /\ ReSearch(COLON_END, stripped) THEN TRUE
  ELSE IF Len(stripped) <= 24 /\ ReSearch(Cls(Colons), stripped)
          /\ ~ReSearch(SENTENCE_END, stripped)
  THEN LET parts == NonEmpty(SplitColons(stripped)) IN
       1 <= Len(parts) /\ Len(parts) <= 3
  ELSE FALSE

is_heading_like(line) ==
  LET stripped == strip(line) IN
  IF stripped = <<>> THEN FALSE
  ELSE IF ReMatch(LIST_MARKER_PATTERN, stripped) THEN FALSE
  ELSE IF is_table_row_line(stripped) THEN FALSE
  ELSE IF Len(stripped) <= 30 /\ ReSearch(COLON_END, stripped) THEN TRUE
  ELSE IF Len(stripped) <= 24 /\ ReSearch(Cls(Colons), stripped)
          /\ ~ReSearch(SENTENCE_END, stripped)
  THEN LET parts == NonEmpty(SplitColons(stripped)) IN
       1 < Len(parts) /\ Len(parts) <= 3
  ELSE FALSE

\* the test without the heading-like rule
should_break_paragraph_no_heading(previous, current) ==
  IF is_table_row_line(previous) \/ is_table_row_line(current) THEN TRUE
  ELSE IF ReMatch(LINE_START_MARKER, current) THEN TRUE
  ELSE ReSearch(TERMINAL_PUNCT_END, previous)

should_break_paragraph(previous, current) ==
  IF is_table_row_line(previous) \/ is_table_row_line(current) THEN TRUE
  ELSE IF ReMatch(LINE_START_MARKER, current) THEN TRUE
  ELSE IF is_heading_like(previous) \/ is_heading_like(current) THEN TRUE
  ELSE ReSearch(TERMINAL_PUNCT_END, previous)

is_cjk(char) == char \in CJKChars

\* a space whatever the two characters are
joiner_always_space(previous, current) == <<SP>>

joiner(previous, current) ==
  IF is_cjk(previous[Len(previous)]) /\ is_cjk(current[1]) THEN <<>> ELSE <<SP>>

\* the buffer is cleared without being appended
Flushed_dropped(merged, buffer) == merged

\* flush: "if buffer: merged.append(buffer.strip())"
Flushed(merged, buffer) ==
  IF buffer # <<>> THEN Append(merged, strip(buffer)) ELSE merged

\* One iteration of the loop of merge_lines on line number index;
\* st is [merged, buffer]
MergeStep(st, current, is_code) ==
  LET line == strip(current) IN
  IF is_code
  THEN [merged |-> Append(Flushed(st.merged, st.buffer), rstrip(current)),
        buffer |-> <<>>]
  ELSE IF line = <<>>
  THEN [merged |-> Flushed(st.merged, st.buffer), buffer |-> <<>>]
  ELSE IF is_table_row_line(line) \/ ReMatch(LIST_MARKER_PATTERN, line)
  THEN [merged |-> Append(Flushed(st.merged, st.buffer), line), buffer |-> <<>>]
  ELSE IF st.buffer = <<>> THEN [st EXCEPT !.buffer = line]
  ELSE IF should_break_paragraph(st.buffer, line)
  THEN [merged |-> Append(st.merged, strip(st.buffer)), buffer |-> line]
  ELSE [st EXCEPT !.buffer = st.buffer \o joiner(st.buffer, line) \o line]

RECURSIVE MergeFrom(_, _, _, _)
MergeFrom(lines, code_lines, index, st) ==
  IF index > Len(lines) THEN st
  ELSE MergeFrom(lines, code_lines, index + 1,
                 MergeStep(st, lines[index], index \in code_lines))

\* The end of merge_lines: last flush, join, collapse
MergeFinish(st) == CollapseBlankRuns(Join(<<NL>>, Flushed(st.merged, st.buffer)))

merge_lines(text) ==
  LET lines == Split(text, NL) IN
  MergeFinish(MergeFrom(lines, detect_code_line_indexes(lines), 1,
                        [merged |-> <<>>, buffer |-> <<>>]))

should_indent(line) ==
  IF is_heading_like(line) THEN FALSE
  ELSE IF is_table_row_line(line) THEN FALSE
  ELSE IF is_code_line_candidate(line) \/ IsIndented(line) THEN FALSE
  ELSE ~ReMatch(LINE_START_MARKER, line)

\* the loop where a Code line leaves paragraph_start as it is
IndentStep_code_keeps_flag(st, raw, is_code, treat_line_breaks_as_paragraphs) ==
  LET line == strip(raw) IN
  IF is_code
  THEN [formatted |-> Append(st.formatted, rstrip(raw)),
        paragraph_start |-> st.paragraph_start]
  ELSE IF line = <<>>
  THEN [formatted |-> Append(st.formatted, <<>>), paragraph_start |-> TRUE]
  ELSE IF treat_line_breaks_as_paragraphs
  THEN [formatted |-> Append(st.formatted,
                             IF should_indent(line) THEN PARAGRAPH_INDENT \o line
                             ELSE line),
        paragraph_start |-> TRUE]
  ELSE [formatted |-> Append(st.formatted,
                             IF st.paragraph_start /\ should_indent(line)
                             THEN PARAGRAPH_INDENT \o line ELSE line),
        paragraph_start |-> FALSE]

\* One iteration of the loop of indent_paragraphs; st is
\* [formatted, paragraph_start]
IndentStep(st, raw, is_code, treat_line_breaks_as_paragraphs) ==
  LET line == strip(raw) IN
  IF is_code
  THEN [formatted |-> Append(st.formatted, rstrip(raw)), paragraph_start |-> TRUE]
  ELSE IF line = <<>>
  THEN [formatted |-> Append(st.formatted, <<>>), paragraph_start |-> TRUE]
  ELSE IF treat_line_breaks_as_paragraphs
  THEN [formatted |-> Append(st.formatted,
                             IF should_indent(line) THEN PARAGRAPH_INDENT \o line
                             ELSE line),
        paragraph_start |-> TRUE]
  ELSE [formatted |-> Append(st.formatted,
                             IF st.paragraph_start /\ should_indent(line)
                             THEN PARAGRAPH_INDENT \o line ELSE line),
        paragraph_start |-> FALSE]

RECURSIVE IndentFrom(_, _, _, _, _)
IndentFrom(lines, code_lines, index, st, treat) ==
  IF index > Len(lines) THEN st
  ELSE IndentFrom(lines, code_lines, index + 1,
                  IndentStep(st, lines[index], index \in code_lines, treat), treat)

indent_paragraphs(text, treat_line_breaks_as_paragraphs) ==
  LET lines == Split(text, NL) IN
  Join(<<NL>>, IndentFrom(lines, detect_code_line_indexes(lines), 1,
                          [formatted |-> <<>>, paragraph_start |-> TRUE],
                          treat_line_breaks_as_paragraphs).formatted)

-----------------------------------------------------------------------------
(* Diagnostics: the punctuation-consistency report of text_cleaner.py and  *)
(* the quality score of app_gui.py                                         *)

CH_PUNCT == {"uFF0C", "u3002", "uFF01", "uFF1F", "uFF1B", "uFF1A", "u3001",
             "uFF08", "uFF09", "u3010", "u3011", "u201C", "u201D", "u2018",
             "u2019", "u300A", "u300B"}
EN_PUNCT == {",", ".", "!", "?", ";", ":", "(", ")", "[", "]", "u0022", "'"}

\* str(n) of a natural number
DecimalDigits == <<"0", "1", "2", "3", "4", "5", "6", "7", "8", "9">>

RECURSIVE Decimal(_)
Decimal(n) ==
  IF n < 10 THEN <<DecimalDigits[n + 1]>>
  ELSE Decimal(n \div 10) \o <<DecimalDigits[(n % 10) + 1]>>

\* [line for line in text.split("\n") if line.strip()], from line number k on
RECURSIVE NonBlankFrom(_, _)
NonBlankFrom(ls, k) ==
  IF k > Len(ls) THEN <<>>
  ELSE (IF strip(ls[k]) # <<>> THEN <<ls[k]>> ELSE <<>>) \o NonBlankFrom(ls, k + 1)

\* has_ch or has_en: the line counts as soon as it has either kind
IsMixedLine_either(line) ==
  \/ \E i \in 1..Len(line) : line[i] \in CH_PUNCT
  \/ \E i \in 1..Len(line) : line[i] \in EN_PUNCT

\* has_ch and has_en
IsMixedLine(line) ==
  /\ \E i \in 1..Len(line) : line[i] \in CH_PUNCT
  /\ \E i \in 1..Len(line) : line[i] \in EN_PUNCT

\* the loop over the non-blank lines: mixed_lines after lines k..
RECURSIVE MixedLinesFrom(_, _, _)
MixedLinesFrom(ls, k, mixed_lines) ==
  IF k > Len(ls) THEN mixed_lines
  ELSE MixedLinesFrom(ls, k + 1,
                      IF IsMixedLine(ls[k]) THEN mixed_lines + 1 ELSE mixed_lines)

\* f"标点混用 {mixed_lines} 处"
MixedWarning(mixed_lines) ==
  <<"u6807", "u70B9", "u6DF7", "u7528", SP>> \o Decimal(mixed_lines)
  \o <<SP, "u5904">>

punctuation_consistency_warnings(t) ==
  LET ls == NonBlankFrom(Split(t, NL), 1) IN
  IF ls = <<>> THEN <<>>
  ELSE LET mixed_lines == MixedLinesFrom(ls, 1, 0) IN
       IF mixed_lines # 0 THEN <<MixedWarning(mixed_lines)>> ELSE <<>>

\* len(re.findall(pattern, s)), for a pattern without groups, from offset pos:
\* leftmost non-overlapping matches
RECURSIVE FindAllCount(_, _, _)
RECURSIVE FindAllNext(_, _, _)

FindAllCount(re, s, pos) ==
  IF pos > Len(s) THEN 0 ELSE FindAllNext(re, s, SearchFrom(re, s, pos))

FindAllNext(re, s, a) ==
  IF a < 0 THEN 0
  ELSE 1 + FindAllCount(re, s, The({IF e > a THEN e ELSE a + 1 :
                                     e \in {Head(M(re, s, a, NoGroups)).e}}))

\* s.count(sub) from offset pos: non-overlapping occurrences, left to right
RECURSIVE CountFrom(_, _, _)
CountFrom(s, sub, pos) ==
  LET found == MinOr({i \in pos..(Len(s) - Len(sub)) :
                        SubSeq(s, i + 1, i + Len(sub)) = sub}, 0 - 1) IN
  IF found < 0 THEN 0 ELSE 1 + CountFrom(s, sub, found + Len(sub))

WHITESPACE_RUN == Rep(S_, 3, 0 - 1)
ZERO_WIDTH == Cls(ZeroWidthChars)
HEADING_MARK == <<"#", "#", "#">>
FENCE_MARK == <<"u0060", "u0060", "u0060">>

\* min(a, b) and max(a, b) of Python
min(a, b) == IF b < a THEN b ELSE a
max(a, b) == IF b > a THEN b ELSE a

\* the length under which a text is penalised as short
ShortText == 30

\* the penalty for a short text: "if len(text.strip()) < 30: score -= 10"
ShortPenalty(t) == IF Len(strip(t)) < ShortText THEN 10 ELSE 0

\* the heading markers and the fence markers capped one by one
Deductions_separate_caps(t) ==
  min(20, FindAllCount(WHITESPACE_RUN, t, 0) * 2)
  + min(20, FindAllCount(ZERO_WIDTH, t, 0) * 3)
  + min(20, CountFrom(t, HEADING_MARK, 0) * 2) + min(20, CountFrom(t, FENCE_MARK, 0) * 3)

\* the three capped deductions, in the order of the code
Deductions(t) ==
  min(20, FindAllCount(WHITESPACE_RUN, t, 0) * 2)
  + min(20, FindAllCount(ZERO_WIDTH, t, 0) * 3)
  + min(20, CountFrom(t, HEADING_MARK, 0) * 2 + CountFrom(t, FENCE_MARK, 0) * 3)

quality_score(t) == max(0, min(100, 100 - Deductions(t) - ShortPenalty(t)))

-----------------------------------------------------------------------------
(* clean_text: the passes in the order of the entry point *)

CRLF == Str(<<CR, NL>>)

\* the normalization that leaves a carriage return on its own
NormalizeNewlines_keeps_cr(raw_text) ==
  RemoveChars(ReSub(CRLF, <<TLit(<<NL>>)>>, raw_text), ZeroWidthChars)

\* lines 138-139: newline forms and zero-width characters
NormalizeNewlines(raw_text) ==
  RemoveChars(ReplaceChar(ReSub(CRLF, <<TLit(<<NL>>)>>, raw_text), CR, <<NL>>),
              ZeroWidthChars)

-----------------------------------------------------------------------------
(* Options and inputs *)

OptionNames == {"remove_markdown", "normalize_punctuation", "normalize_whitespace",
                "merge_wrapped_lines", "remove_emoji", "indent_paragraph",
                "keep_tables"}

\* CleanOptions(): the defaults of the dataclass
DefaultOptions ==
  [remove_markdown |-> TRUE, normalize_punctuation |-> TRUE,
   normalize_whitespace |-> TRUE, merge_wrapped_lines |-> TRUE,
   remove_emoji |-> FALSE, indent_paragraph |-> TRUE, keep_tables |-> TRUE]

AllOff == [n \in OptionNames |-> FALSE]

\* Option values explored: those differing from the defaults in at most
\* MaxFlips flags, and the value with every flag off
MaxFlips == 1

OptionValues ==
  {o \in [OptionNames -> BOOLEAN] :
     Cardinality({n \in OptionNames : o[n] # DefaultOptions[n]}) <= MaxFlips}
  \cup {AllOff}

\* Input texts: up to MaxFragments fragments joined by newlines, and the
\* texts of the scenarios
MaxFragments == 2

Fragments == {
  <<"a">>,
  <<".">>,
  <<",", "uFF0C">>,
  <<NL, NL, NL, "u4E2D">>,
  <<"-", SP, "a">>,
  <<"x", SP, "=", SP, "1", SP>>,
  <<"u0060", "u0060", "u0060">>,
  <<"u540D", "u79F0", "|", "b">> }

\* the sequences of at most n elements of S
RECURSIVE SeqsUpTo(_, _)
SeqsUpTo(S, n) ==
  IF n = 0 THEN {<<>>}
  ELSE {<<>>} \cup {<<x>> \o xs : x \in S, xs \in SeqsUpTo(S, n - 1)}

\* "### 标题", "", "这是**重点**内容。"
Scenario1Input ==
  <<"#", "#", "#", SP, "u6807", "u9898", NL, NL,
    "u8FD9", "u662F", "*", "*", "u91CD", "u70B9", "*", "*", "u5185", "u5BB9", "u3002">>

\* a fenced block of one line with CJK punctuation: "```", "中，文", "```"
FencedInput ==
  <<"u0060", "u0060", "u0060", NL, "u4E2D", "uFF0C", "u6587", NL,
    "u0060", "u0060", "u0060">>

ScenarioInputs == {Scenario1Input, FencedInput}

Inputs == {Join(<<NL>>, fs) : fs \in SeqsUpTo(Fragments, MaxFragments)} \cup ScenarioInputs

-----------------------------------------------------------------------------
(* clean_text as a state machine: one action per pass.  raw is the text    *)
(* given to the first call, text the text so far, pc the pass to run next, *)
(* call counts the calls of clean_text (the second call is given the       *)
(* result of the first), arg is the argument of the current call and       *)
(* result1 the result of the first call.                                   *)
(* detect_code_line_indexes called on its own: lines is its argument,      *)
(* code_indexes and weak_indexes are its two sets when it returns, cpc is  *)
(* its position; inserted is the number of the line a caller has inserted  *)
(* into lines (0 when none) and previous the weak_indexes left by the call *)
(* before the insertion.                                                   *)
(* The diagnostics of the window: shown is the text they are given, score  *)
(* the quality score (-1 before the first), warnings the consistency       *)
(* report and dpc the position in the two updates.                         *)
(* The propagation loop of detect_code_line_indexes taken pass by pass:    *)
(* changed is its flag and passes the number of passes of the while loop   *)
(* made so far.                                                            *)
(* merge_lines called on its own, line by line: merged and buffer are its  *)
(* two locals, index the number of the next line, reflowed the text it     *)
(* returns and mpc its position.                                           *)
(* is_heading_like called on its own: candidate is the line it is given,   *)
(* heading the value it returns and hpc its position.                      *)
(* The window of app_gui.py: history and history_index are the two fields  *)
(* of CleanerApp, input_text and output_text the contents of its two text  *)
(* widgets, gpc tells whether __init__ has made its first record.  A       *)
(* history entry is [label, input, output]; its timestamp, a reading of    *)
(* the clock that no comparison uses, is left out.                         *)

VARIABLES raw, options, text, pc, call, arg, result1,
          lines, code_indexes, weak_indexes, cpc, inserted, previous,
          shown, score, warnings, dpc,
          changed, passes,
          merged, buffer, index, reflowed, mpc,
          candidate, heading, hpc,
          history, history_index, input_text, output_text, gpc,
          config_file, config_model, lpc

pipeVars == <<raw, options, text, pc, call, arg, result1>>

classifierVars == <<lines, code_indexes, weak_indexes, cpc, inserted, previous>>

diagVars == <<shown, score, warnings, dpc>>

loopVars == <<changed, passes>>

mergeVars == <<merged, buffer, index, reflowed, mpc>>

headingVars == <<candidate, heading, hpc>>

historyVars == <<history, history_index, input_text, output_text, gpc>>

configVars == <<config_file, config_model, lpc>>

appVars == <<headingVars, historyVars, configVars>>

vars == <<pipeVars, classifierVars, diagVars, loopVars, mergeVars, appVars>>

\* No call of detect_code_line_indexes on its own
ClassifierIdle ==
  /\ lines = <<>>
  /\ code_indexes = {}
  /\ weak_indexes = {}
  /\ cpc = "idle"
  /\ inserted = 0
  /\ previous = {}

\* No diagnostics are computed
DiagnosticsIdle ==
  /\ shown = <<>>
  /\ score = 0 - 1
  /\ warnings = <<>>
  /\ dpc = "idle"

\* The propagation loop is not observed
LoopIdle ==
  /\ changed = FALSE
  /\ passes = 0

\* No call of merge_lines on its own
MergeIdle ==
  /\ merged = <<>>
  /\ buffer = <<>>
  /\ index = 0
  /\ reflowed = <<>>
  /\ mpc = "idle"

\* No call of is_heading_like on its own
HeadingIdle ==
  /\ candidate = <<>>
  /\ heading = FALSE
  /\ hpc = "idle"

\* No window
HistoryIdle ==
  /\ history = <<>>
  /\ history_index = 0 - 1
  /\ input_text = <<>>
  /\ output_text = <<>>
  /\ gpc = "idle"

\* The fields of AppConfig, in the order of the class
ConfigKeys ==
  {"remove_markdown", "normalize_punctuation", "normalize_whitespace",
   "merge_lines", "remove_emoji", "indent_paragraph", "keep_tables",
   "last_open_dir", "last_save_dir", "window_geometry", "theme_mode"}

\* AppConfig(): every field at its default, each value written as JSON text
DefaultConfig ==
  [key \in ConfigKeys |->
     CASE key \in {"remove_markdown", "normalize_punctuation",
                   "normalize_whitespace", "merge_lines", "indent_paragraph",
                   "keep_tables"} -> "true"
       [] key = "remove_emoji" -> "false"
       [] key \in {"last_open_dir", "last_save_dir"} -> "\"\""
       [] key = "window_geometry" -> "\"1220x780\""
       [] OTHER -> "\"light\""]

\* An object without members
NoMembers == [key \in {} |-> "null"]

\* No config.json
AbsentFile == [kind |-> "absent", members |-> NoMembers]

\* load_config is not called
ConfigIdle ==
  /\ config_file = AbsentFile
  /\ config_model = DefaultConfig
  /\ lpc = "idle"

AppIdle == HeadingIdle /\ HistoryIdle /\ ConfigIdle

\* Nothing runs but the call the specification is about
OthersIdle == DiagnosticsIdle /\ LoopIdle /\ MergeIdle /\ AppIdle

\* clean_text is called with an input text and an option value
Called(inputs, values) ==
  /\ raw \in inputs
  /\ options \in values
  /\ text = raw
  /\ arg = raw
  /\ pc = "start"
  /\ call = 1
  /\ result1 = <<>>

Init == Called(Inputs, OptionValues) /\ ClassifierIdle /\ OthersIdle

\* A pass that cannot raise: result is the text it leaves
Pass(name, next, result) ==
  /\ pc = name
  /\ text' = result
  /\ pc' = next
  /\ UNCHANGED <<raw, options, call, arg, result1, classifierVars, diagVars, loopVars, mergeVars, appVars>>

Start ==
  /\ pc = "start"
  /\ text' = NormalizeNewlines(text)
  /\ pc' = "list_markers"
  /\ UNCHANGED <<raw, options, call, arg, result1, classifierVars, diagVars, loopVars, mergeVars, appVars>>

ListMarkers == Pass("list_markers", "noise", normalize_list_markers(text))

Noise == Pass("noise", "markdown", remove_repeated_noise(text))

Markdown ==
  Pass("markdown", "tables",
       IF options.remove_markdown THEN strip_markdown(text, options.keep_tables)
       ELSE text)

Tables ==
  /\ pc = "tables"
  /\ IF options.keep_tables
     THEN pc' = "punctuation" /\ text' = normalize_table_blocks(text)
     ELSE IF convert_table_blocks_raises(text)
          THEN pc' = "raised" /\ UNCHANGED text
          ELSE pc' = "punctuation" /\ text' = convert_table_blocks_to_bullets(text)
  /\ UNCHANGED <<raw, options, call, arg, result1, classifierVars, diagVars, loopVars, mergeVars, appVars>>

Punctuation ==
  Pass("punctuation", "emoji",
       IF options.normalize_punctuation THEN normalize_punctuation(text) ELSE text)

Emoji ==
  Pass("emoji", "whitespace",
       IF options.remove_emoji THEN ReSub(EMOJI_PATTERN, <<>>, text) ELSE text)

Whitespace ==
  Pass("whitespace", "spacing",
       IF options.normalize_whitespace THEN normalize_whitespace(text) ELSE text)

Spacing == Pass("spacing", "merge", normalize_cjk_latin_spacing(text))

Merge ==
  Pass("merge", "indent",
       IF options.merge_wrapped_lines THEN merge_lines(text) ELSE text)

Indent ==
  Pass("indent", "strip",
       IF options.indent_paragraph
       THEN indent_paragraphs(text, options.merge_wrapped_lines) ELSE text)

Strip == Pass("strip", "done", StripSet(text, {NL, CR}))

\* The caller cleans the result of the first call again, with the same options
CallAgain ==
  /\ pc = "done"
  /\ call = 1
  /\ result1' = text
  /\ arg' = text
  /\ call' = 2
  /\ pc' = "start"
  /\ UNCHANGED <<raw, options, text, classifierVars, diagVars, loopVars, mergeVars, appVars>>

Next ==
  \/ Start
  \/ ListMarkers
  \/ Noise
  \/ Markdown
  \/ Tables
  \/ Punctuation
  \/ Emoji
  \/ Whitespace
  \/ Spacing
  \/ Merge
  \/ Indent
  \/ Strip
  \/ CallAgain

Spec == Init /\ [][Next]_vars

Returned == pc = "done"
Raised == pc = "raised"

-----------------------------------------------------------------------------
(* clean_text called on table blocks, and on wrapped lines *)

\* clean_text is not running
PipeIdle ==
  /\ raw = <<>>
  /\ options = DefaultOptions
  /\ text = <<>>
  /\ arg = <<>>
  /\ pc = "idle"
  /\ call = 0
  /\ result1 = <<>>

\* Lines that satisfy is_table_row_line: "a|b", "1|2", "1|2|3", "---|---",
\* ":---|---|---", "名称|b", "| x |y|", "http|b", "url|http"
TableLines == {
  <<"a", "|", "b">>,
  <<"1", "|", "2">>,
  <<"1", "|", "2", "|", "3">>,
  <<"-", "-", "-", "|", "-", "-", "-">>,
  <<":", "-", "-", "-", "|", "-", "-", "-", "|", "-", "-", "-">>,
  <<"u540D", "u79F0", "|", "b">>,
  <<"|", SP, "x", SP, "|", "y", "|">>,
  <<"h", "t", "t", "p", "|", "b">>,
  <<"u", "r", "l", "|", "h", "t", "t", "p">> }

\* Table blocks of up to MaxTableRows lines
MaxTableRows == 2

TableTexts == {Join(<<NL>>, b) : b \in SeqsUpTo(TableLines, MaxTableRows) \ {<<>>}}

InitTables ==
  Called(TableTexts, {DefaultOptions}) /\ ClassifierIdle /\ OthersIdle

SpecTables == InitTables /\ [][Next]_vars

\* Lines of prose: "中文", "ab", "明。", "x."
ReflowLines == {
  <<"u4E2D", "u6587">>,
  <<"a", "b">>,
  <<"u660E", "u3002">>,
  <<"x", ".">> }

\* Wrapped texts of up to MaxReflowLines lines
MaxReflowLines == 3

\* "这是第一行", "没有标点结尾", "继续这句话。"
Scenario4Input ==
  <<"u8FD9", "u662F", "u7B2C", "u4E00", "u884C", NL,
    "u6CA1", "u6709", "u6807", "u70B9", "u7ED3", "u5C3E", NL,
    "u7EE7", "u7EED", "u8FD9", "u53E5", "u8BDD", "u3002">>

ReflowTexts ==
  {Join(<<NL>>, b) : b \in SeqsUpTo(ReflowLines, MaxReflowLines) \ {<<>>}}
  \cup {Scenario4Input}

InitReflow ==
  Called(ReflowTexts, {DefaultOptions}) /\ ClassifierIdle /\ OthersIdle

SpecReflow == InitReflow /\ [][Next]_vars

\* Lines for the indentation of unmerged text: "中文", "ab", "", "x = 1",
\* "- a", "注：", "a|b"
IndentLines == {
  <<"u4E2D", "u6587">>,
  <<"a", "b">>,
  <<>>,
  <<"x", SP, "=", SP, "1">>,
  <<"-", SP, "a">>,
  <<"u6CE8", "uFF1A">>,
  <<"a", "|", "b">> }

\* Texts of up to MaxIndentLines lines
MaxIndentLines == 3

IndentTexts == {Join(<<NL>>, b) : b \in SeqsUpTo(IndentLines, MaxIndentLines) \ {<<>>}}

\* merge_wrapped_lines off, the other flags as by default
Unmerged == [DefaultOptions EXCEPT !.merge_wrapped_lines = FALSE]

InitIndent ==
  Called(IndentTexts, {Unmerged}) /\ ClassifierIdle /\ OthersIdle

SpecIndent == InitIndent /\ [][Next]_vars

\* Lines with wide punctuation, in prose and in code: "你好，世界！", "```",
\* "x = 1", "中“a”…", "（1）【a】—–", "‘a’、b：c。；？", "y = “a”"
PunctuationLines == {
  <<"u4F60", "u597D", "uFF0C", "u4E16", "u754C", "uFF01">>,
  <<"u0060", "u0060", "u0060">>,
  <<"x", SP, "=", SP, "1">>,
  <<"u4E2D", "u201C", "a", "u201D", "u2026">>,
  <<"uFF08", "1", "uFF09", "u3010", "a", "u3011", "u2014", "u2013">>,
  <<"u2018", "a", "u2019", "u3001", "b", "uFF1A", "c", "u3002", "uFF1B", "uFF1F">>,
  <<"y", SP, "=", SP, "u201C", "a", "u201D">> }

\* Texts of up to MaxPunctuationLines lines
MaxPunctuationLines == 3

PunctuationTexts ==
  {Join(<<NL>>, b) : b \in SeqsUpTo(PunctuationLines, MaxPunctuationLines) \ {<<>>}}

InitPunctuation ==
  Called(PunctuationTexts, {DefaultOptions}) /\ ClassifierIdle /\ OthersIdle

SpecPunctuation == InitPunctuation /\ [][Next]_vars

\* Lines with CJK/Latin and letter/digit boundaries: "中a", "a中1文", "a1b2",
\* "x = a1" (code), "中文", "a 1", "1a中", "```"
SpacingLines == {
  <<"u4E2D", "a">>,
  <<"a", "u4E2D", "1", "u6587">>,
  <<"a", "1", "b", "2">>,
  <<"x", SP, "=", SP, "a", "1">>,
  <<"u4E2D", "u6587">>,
  <<"a", SP, "1">>,
  <<"1", "a", "u4E2D">>,
  <<"u0060", "u0060", "u0060">> }

\* Texts of up to MaxSpacingLines lines
MaxSpacingLines == 3

SpacingTexts == {Join(<<NL>>, b) : b \in SeqsUpTo(SpacingLines, MaxSpacingLines) \ {<<>>}}

InitSpacing ==
  Called(SpacingTexts, {DefaultOptions}) /\ ClassifierIdle /\ OthersIdle

SpecSpacing == InitSpacing /\ [][Next]_vars

\* Pieces of text with carriage returns, newlines and zero-width characters
ControlFragments == {
  <<"a">>,
  <<"u4E2D">>,
  <<CR>>,
  <<NL>>,
  <<"u200B", "uFEFF">>,
  <<"u200C", "u200D">> }

\* Texts of up to MaxControlFragments pieces, one after the other
MaxControlFragments == 3

ControlTexts ==
  {Flatten(fs) : fs \in SeqsUpTo(ControlFragments, MaxControlFragments)}

InitControl ==
  Called(ControlTexts, OptionValues) /\ ClassifierIdle /\ OthersIdle

SpecControl == InitControl /\ [][Next]_vars

\* Lines with Markdown markers and protected lines: "a**b", "c**d", "_c_",
\* "# h", "x = 1", "a|b", "---|---"
MarkdownLines == {
  <<"a", "*", "*", "b">>,
  <<"c", "*", "*", "d">>,
  <<"_", "c", "_">>,
  <<"#", SP, "h">>,
  <<"x", SP, "=", SP, "1">>,
  <<"a", "|", "b">>,
  <<"-", "-", "-", "|", "-", "-", "-">> }

\* Texts of up to MaxMarkdownLines lines
MaxMarkdownLines == 3

MarkdownTexts ==
  {Join(<<NL>>, b) : b \in SeqsUpTo(MarkdownLines, MaxMarkdownLines) \ {<<>>}}

InitMarkdown ==
  Called(MarkdownTexts, {DefaultOptions}) /\ ClassifierIdle /\ OthersIdle

SpecMarkdown == InitMarkdown /\ [][Next]_vars

-----------------------------------------------------------------------------
(* detect_code_line_indexes called on its own, before and after a caller   *)
(* inserts a line                                                          *)

\* "a", "", "# c", "    b", "x = 1", the fence delimiter
ClassifierLines == {
  <<"a">>,
  <<>>,
  <<"#", SP, "c">>,
  <<SP, SP, SP, SP, "b">>,
  <<"x", SP, "=", SP, "1">>,
  <<"u0060", "u0060", "u0060">> }

\* Lines with CJK punctuation: prose, a code symbol with the hint, an
\* assignment, a fence delimiter
InsertedLines == {
  <<"u4E2D", "uFF0C">>,
  <<"[", "uFF0C", "]">>,
  <<"x", SP, "=", SP, "u0022", "uFF0C", "u0022">>,
  <<"u0060", "u0060", "u0060", "uFF0C">> }

\* Lists of up to MaxLines lines
MaxLines == 2

InitClassifier ==
  /\ lines \in SeqsUpTo(ClassifierLines, MaxLines) \ {<<>>}
  /\ code_indexes = {}
  /\ weak_indexes = {}
  /\ cpc = "call"
  /\ inserted = 0
  /\ previous = {}
  /\ PipeIdle
  /\ OthersIdle

\* detect_code_line_indexes(lines) runs to its return
Classify ==
  /\ cpc = "call"
  /\ \E st \in {PromoteLoop(lines, ScanLines(lines, FenceLines(lines)))} :
       /\ code_indexes' = st.code
       /\ weak_indexes' = st.weak
  /\ cpc' = "returned"
  /\ UNCHANGED <<lines, inserted, previous, pipeVars, diagVars, loopVars, mergeVars, appVars>>

InsertAt(ls, p, l) == SubSeq(ls, 1, p - 1) \o <<l>> \o SubSeq(ls, p, Len(ls))

\* The caller inserts a line as line number p and classifies again
InsertLine ==
  /\ cpc = "returned"
  /\ inserted = 0
  /\ \E p \in 1..(Len(lines) + 1), l \in InsertedLines :
       /\ lines' = InsertAt(lines, p, l)
       /\ inserted' = p
  /\ previous' = weak_indexes
  /\ cpc' = "call"
  /\ UNCHANGED <<code_indexes, weak_indexes, pipeVars, diagVars, loopVars, mergeVars, appVars>>

NextClassifier ==
  \/ Classify
  \/ InsertLine

SpecClassifier == InitClassifier /\ [][NextClassifier]_vars

-----------------------------------------------------------------------------
(* The diagnostics, computed on a text as the window does after a run:     *)
(* the quality score first, the consistency report next                    *)

\* n copies of xs
Repeat(xs, n) == Flatten([k \in 1..n |-> xs])

\* Lines for the consistency report: "中，a." , "中，文", "a, b", "中，a-b",
\* "中…a,", "ab", "  " and the empty line
WarningLines == {
  <<"u4E2D", "uFF0C", "a", ".">>,
  <<"u4E2D", "uFF0C", "u6587">>,
  <<"a", ",", SP, "b">>,
  <<"u4E2D", "uFF0C", "a", "-", "b">>,
  <<"u4E2D", "u2026", "a", ",">>,
  <<"a", "b">>,
  <<SP, SP>>,
  <<>> }

\* Texts of up to MaxWarningLines lines, and one of MixedMany mixed lines
MaxWarningLines == 3
MixedMany == 11

WarningTexts ==
  {Join(<<NL>>, b) : b \in SeqsUpTo(WarningLines, MaxWarningLines)}
  \cup {Join(<<NL>>, [k \in 1..MixedMany |-> <<"u3002", ".">>])}

\* Texts for the score: up to MaxRuns runs of three spaces, MaxZeroWidth
\* zero-width characters, MaxHeadings "###" and MaxFences fence markers
MaxRuns == 11
MaxZeroWidth == 7
MaxHeadings == 4
MaxFences == 5

ScoreText(w, z, h, f) ==
  Repeat(<<"a", SP, SP, SP>>, w) \o Repeat(<<"u200B">>, z)
  \o Repeat(<<"#", "#", "#", SP>>, h) \o Repeat(<<"u0060", "u0060", "u0060", "b">>, f)

\* Texts of 28 to 31 letters, runs of "#" and of backticks that are no
\* multiple of three, whitespace runs of two and of mixed characters
EdgeTexts ==
  {Repeat(<<"a">>, n) : n \in 28..31}
  \cup {Repeat(<<"#">>, n) : n \in 1..7}
  \cup {Repeat(<<"u0060">>, n) \o Repeat(<<"x">>, 30) : n \in 1..7}
  \cup {<<"a", SP, SP, "b">>, <<"a", SP, TAB, NL, IDSP, "b">>,
         <<SP, SP, SP>>, <<"uFEFF", "a", "u200D", "u200C">>}

ScoreTexts ==
  {ScoreText(w, z, h, f) : w \in 0..MaxRuns, z \in 0..MaxZeroWidth,
                           h \in 0..MaxHeadings, f \in 0..MaxFences}
  \cup EdgeTexts

InitDiagnostics ==
  /\ shown \in WarningTexts \cup ScoreTexts
  /\ score = 0 - 1
  /\ warnings = <<>>
  /\ dpc = "quality"
  /\ PipeIdle
  /\ ClassifierIdle
  /\ LoopIdle
  /\ MergeIdle
  /\ AppIdle

\* _update_quality(text)
UpdateQuality ==
  /\ dpc = "quality"
  /\ score' = quality_score(shown)
  /\ dpc' = "punctuation"
  /\ UNCHANGED <<shown, warnings, pipeVars, classifierVars, loopVars, mergeVars, appVars>>

\* _update_punctuation_consistency(text)
UpdatePunctuation ==
  /\ dpc = "punctuation"
  /\ warnings' = punctuation_consistency_warnings(shown)
  /\ dpc' = "done"
  /\ UNCHANGED <<shown, score, pipeVars, classifierVars, loopVars, mergeVars, appVars>>

NextDiagnostics ==
  \/ UpdateQuality
  \/ UpdatePunctuation

SpecDiagnostics == InitDiagnostics /\ [][NextDiagnostics]_vars

-----------------------------------------------------------------------------
(* detect_code_line_indexes taken loop by loop: the scan of the lines, the *)
(* passes of the while loop one at a time, the return                      *)

\* "a", "", "# c", "    b", "x = 1", "[a]" and the fence delimiter
PromotionLines == {
  <<"a">>,
  <<>>,
  <<"#", SP, "c">>,
  <<SP, SP, SP, SP, "b">>,
  <<"x", SP, "=", SP, "1">>,
  <<"[", "a", "]">>,
  <<"u0060", "u0060", "u0060">> }

\* Lists of up to MaxPromotionLines lines
MaxPromotionLines == 4

InitPromotion ==
  /\ lines \in SeqsUpTo(PromotionLines, MaxPromotionLines) \ {<<>>}
  /\ code_indexes = {}
  /\ weak_indexes = {}
  /\ cpc = "scan"
  /\ inserted = 0
  /\ previous = {}
  /\ changed = FALSE
  /\ passes = 0
  /\ PipeIdle
  /\ DiagnosticsIdle
  /\ MergeIdle
  /\ AppIdle

\* The first loop, and "changed = True"
Scan ==
  /\ cpc = "scan"
  /\ code_indexes' = CodeScan(lines, FenceLines(lines))
  /\ weak_indexes' = WeakScan(lines, FenceLines(lines))
  /\ changed' = TRUE
  /\ cpc' = "loop"
  /\ UNCHANGED <<lines, inserted, previous, passes, pipeVars, diagVars, mergeVars, appVars>>

\* One pass of "while changed": the flag is cleared and the snapshot of
\* weak_indexes is gone through in some order
PromoteIteration ==
  /\ cpc = "loop"
  /\ changed
  /\ \E order \in Orders(weak_indexes) :
       \E st \in {PromoteInOrder(lines, [code |-> code_indexes, weak |-> weak_indexes,
                                          changed |-> FALSE], order, 1)} :
         /\ code_indexes' = st.code
         /\ weak_indexes' = st.weak
         /\ changed' = st.changed
  /\ passes' = passes + 1
  /\ UNCHANGED <<lines, cpc, inserted, previous, pipeVars, diagVars, mergeVars, appVars>>

\* "return code_indexes" once a pass has changed nothing
PromotionReturn ==
  /\ cpc = "loop"
  /\ ~changed
  /\ cpc' = "returned"
  /\ UNCHANGED <<lines, code_indexes, weak_indexes, inserted, previous, loopVars,
                 pipeVars, diagVars, mergeVars, appVars>>

NextPromotion ==
  \/ Scan
  \/ PromoteIteration
  \/ PromotionReturn

SpecPromotion == InitPromotion /\ [][NextPromotion]_vars

-----------------------------------------------------------------------------
(* merge_lines called on its own and taken line by line: it classifies the *)
(* lines, runs its loop once per line and returns                          *)

\* "中文", "ab ", "明。", "  x = 1 ", "", "a|b", "- a", "注：", "(1)a" and the
\* fence delimiter
WrappedLines == {
  <<"u4E2D", "u6587">>,
  <<"a", "b", SP>>,
  <<"u660E", "u3002">>,
  <<SP, SP, "x", SP, "=", SP, "1", SP>>,
  <<>>,
  <<"a", "|", "b">>,
  <<"-", SP, "a">>,
  <<"u6CE8", "uFF1A">>,
  <<"(", "1", ")", "a">>,
  <<"u0060", "u0060", "u0060">> }

\* Texts of up to MaxWrappedLines lines
MaxWrappedLines == 3

InitMerge ==
  /\ lines \in SeqsUpTo(WrappedLines, MaxWrappedLines) \ {<<>>}
  /\ code_indexes = {}
  /\ weak_indexes = {}
  /\ cpc = "call"
  /\ inserted = 0
  /\ previous = {}
  /\ merged = <<>>
  /\ buffer = <<>>
  /\ index = 1
  /\ reflowed = <<>>
  /\ mpc = "loop"
  /\ PipeIdle
  /\ DiagnosticsIdle
  /\ LoopIdle
  /\ AppIdle

\* One iteration of "for index, current in enumerate(lines)"
MergeLine ==
  /\ mpc = "loop"
  /\ cpc = "returned"
  /\ index <= Len(lines)
  /\ \E st \in {MergeStep([merged |-> merged, buffer |-> buffer], lines[index],
                           index \in code_indexes)} :
       /\ merged' = st.merged
       /\ buffer' = st.buffer
  /\ index' = index + 1
  /\ UNCHANGED <<reflowed, mpc, pipeVars, classifierVars, diagVars, loopVars, appVars>>

\* After the loop: the last flush, the join and the collapse of blank runs
MergeReturn ==
  /\ mpc = "loop"
  /\ cpc = "returned"
  /\ index > Len(lines)
  /\ merged' = Flushed(merged, buffer)
  /\ reflowed' = MergeFinish([merged |-> merged, buffer |-> buffer])
  /\ mpc' = "done"
  /\ UNCHANGED <<buffer, index, pipeVars, classifierVars, diagVars, loopVars, appVars>>

NextMerge ==
  \/ Classify
  \/ MergeLine
  \/ MergeReturn

SpecMerge == InitMerge /\ [][NextMerge]_vars

-----------------------------------------------------------------------------
(* is_heading_like called on its own *)

\* What follows the run of letters of a line: nothing, a colon of either
\* width, one to four segments, a closing full stop or comma, colons in a row
HeadingTails == {
  <<>>,
  <<":">>,
  <<"uFF1A">>,
  <<":", "b">>,
  <<"uFF1A", "b">>,
  <<":", "b", ":", "c">>,
  <<":", "b", ":", "c", ":", "d">>,
  <<":", "b", ".">>,
  <<":", "b", "uFF1A", "c", "uFF0C">>,
  <<":", ":", "b">>,
  <<".">> }

\* Lines that start with up to MaxHeadingRun letters
MaxHeadingRun == 31

\* "- a:", "1. a:b", "a|b:", "  a:  ", " :b ", "(1)a:"
OtherHeadingLines == {
  <<"-", SP, "a", ":">>,
  <<"1", ".", SP, "a", ":", "b">>,
  <<"a", "|", "b", ":">>,
  <<SP, SP, "a", ":", SP, SP>>,
  <<SP, ":", "b", SP>>,
  <<"(", "1", ")", "a", ":">> }

HeadingLines ==
  {Repeat(<<"a">>, n) \o t : n \in 0..MaxHeadingRun, t \in HeadingTails}
  \cup OtherHeadingLines

InitHeading ==
  /\ candidate \in HeadingLines
  /\ heading = FALSE
  /\ hpc = "call"
  /\ PipeIdle
  /\ ClassifierIdle
  /\ DiagnosticsIdle
  /\ LoopIdle
  /\ MergeIdle
  /\ HistoryIdle
  /\ ConfigIdle

IsHeadingLike ==
  /\ hpc = "call"
  /\ heading' = is_heading_like(candidate)
  /\ hpc' = "returned"
  /\ UNCHANGED <<candidate, pipeVars, classifierVars, diagVars, loopVars, mergeVars,
                 historyVars, configVars>>

NextHeading == IsHeadingLike

SpecHeading == InitHeading /\ [][NextHeading]_vars

-----------------------------------------------------------------------------
(* The history of the window (app_gui.py): the record made by __init__,    *)
(* process_text and open_file, and undo, redo and the restore of an entry  *)
(* chosen in the history window                                            *)

\* clean_text as one function: the passes of the state machine in order,
\* each given the text the pass before it has left
FromStrip(t, o) == StripSet(t, {NL, CR})

FromIndent(t, o) ==
  The({FromStrip(u, o) :
         u \in {IF o.indent_paragraph
                THEN indent_paragraphs(t, o.merge_wrapped_lines) ELSE t}})

FromMerge(t, o) ==
  The({FromIndent(u, o) :
         u \in {IF o.merge_wrapped_lines THEN merge_lines(t) ELSE t}})

FromSpacing(t, o) ==
  The({FromMerge(u, o) : u \in {normalize_cjk_latin_spacing(t)}})

FromWhitespace(t, o) ==
  The({FromSpacing(u, o) :
         u \in {IF o.normalize_whitespace THEN normalize_whitespace(t) ELSE t}})

FromEmoji(t, o) ==
  The({FromWhitespace(u, o) :
         u \in {IF o.remove_emoji THEN ReSub(EMOJI_PATTERN, <<>>, t) ELSE t}})

FromPunctuation(t, o) ==
  The({FromEmoji(u, o) :
         u \in {IF o.normalize_punctuation THEN normalize_punctuation(t) ELSE t}})

FromTables(t, o) ==
  The({FromPunctuation(u, o) :
         u \in {IF o.keep_tables THEN normalize_table_blocks(t)
                ELSE convert_table_blocks_to_bullets(t)}})

FromMarkdown(t, o) ==
  The({FromTables(u, o) :
         u \in {IF o.remove_markdown THEN strip_markdown(t, o.keep_tables) ELSE t}})

FromNoise(t, o) == The({FromMarkdown(u, o) : u \in {remove_repeated_noise(t)}})

FromListMarkers(t, o) == The({FromNoise(u, o) : u \in {normalize_list_markers(t)}})

clean_text(raw_text, o) ==
  The({FromListMarkers(u, o) : u \in {NormalizeNewlines(raw_text)}})

history_limit == 30

\* the labels of the records: "启动", "一键优化", "打开文件"
LABEL_STARTUP == <<"u542F", "u52A8">>
LABEL_PROCESS == <<"u4E00", "u952E", "u4F18", "u5316">>
LABEL_OPEN == <<"u6253", "u5F00", "u6587", "u4EF6">>

\* _capture_state(label)
CaptureState(label, input, output) ==
  [label |-> label, input |-> input, output |-> output]

\* the history with every entry kept
Kept_all(h, i) == h

\* "self.history[: self.history_index + 1]" where the index is not at the
\* last entry
Kept(h, i) == IF i < Len(h) - 1 THEN SubSeq(h, 1, i + 1) ELSE h

\* the history that is never shortened
Capped_never(h) == h

\* "self.history.pop(0)" where the limit is exceeded
Capped(h) == IF Len(h) > history_limit THEN Tail(h) ELSE h

\* the record is the same text as the entry the index designates
SameAsCurrent(h, i, state) ==
  /\ h # <<>>
  /\ i >= 0
  /\ h[i + 1].input = state.input
  /\ h[i + 1].output = state.output

\* _record_state: the history it leaves
RecordedHistory(h, i, state) ==
  IF SameAsCurrent(h, i, state) THEN h
  ELSE Capped(Append(Kept(h, i), state))

\* _record_state: the index it leaves
RecordedIndex(h, i, state) ==
  IF SameAsCurrent(h, i, state) THEN i
  ELSE Len(RecordedHistory(h, i, state)) - 1

\* _record_state(label) with the two widgets holding input and output
RecordState(label, input, output) ==
  /\ history' = RecordedHistory(history, history_index,
                                CaptureState(label, input, output))
  /\ history_index' = RecordedIndex(history, history_index,
                                    CaptureState(label, input, output))

\* _update_quality and _update_punctuation_consistency of a text
UpdateDiagnostics(t) ==
  /\ shown' = t
  /\ score' = quality_score(t)
  /\ warnings' = punctuation_consistency_warnings(t)
  /\ UNCHANGED dpc

\* _apply_state(state)
ApplyState(state) ==
  /\ input_text' = state.input
  /\ output_text' = state.output
  /\ UpdateDiagnostics(state.output)

\* Contents of the files opened: an empty file and "a"
FileContents == {<<>>, <<"a">>}

\* The check boxes of the window as load_config leaves them without a file
WindowOptions == DefaultOptions

InitHistory ==
  /\ history = <<>>
  /\ history_index = 0 - 1
  /\ input_text = <<>>
  /\ output_text = <<>>
  /\ gpc = "init"
  /\ PipeIdle
  /\ ClassifierIdle
  /\ DiagnosticsIdle
  /\ LoopIdle
  /\ MergeIdle
  /\ HeadingIdle
  /\ ConfigIdle

\* __init__: the first record, made with both widgets empty
Startup ==
  /\ gpc = "init"
  /\ RecordState(LABEL_STARTUP, input_text, output_text)
  /\ gpc' = "ready"
  /\ UNCHANGED <<input_text, output_text, pipeVars, classifierVars, diagVars,
                 loopVars, mergeVars, headingVars, configVars>>

\* open_file, with a file chosen and read
OpenFile(content) ==
  /\ gpc = "ready"
  /\ input_text' = content
  /\ RecordState(LABEL_OPEN, content, output_text)
  /\ UNCHANGED <<output_text, gpc, pipeVars, classifierVars, diagVars,
                 loopVars, mergeVars, headingVars, configVars>>

\* process_text: nothing for a blank input, else the output is the cleaned
\* input and the state is recorded; get("1.0", "end") ends with a newline.
\* With keep_tables on, as in WindowOptions, clean_text does not raise.
ProcessText ==
  /\ gpc = "ready"
  /\ IF strip(input_text \o <<NL>>) = <<>>
     THEN UNCHANGED <<history, history_index, output_text, diagVars>>
     ELSE \E result \in {clean_text(input_text \o <<NL>>, WindowOptions)} :
            /\ output_text' = result
            /\ UpdateDiagnostics(result)
            /\ RecordState(LABEL_PROCESS, input_text, result)
  /\ UNCHANGED <<input_text, gpc, pipeVars, classifierVars, loopVars, mergeVars,
                 headingVars, configVars>>

\* undo
Undo ==
  /\ gpc = "ready"
  /\ IF history_index <= 0
     THEN UNCHANGED <<history_index, input_text, output_text, diagVars>>
     ELSE /\ history_index' = history_index - 1
          /\ ApplyState(history[history_index])
  /\ UNCHANGED <<history, gpc, pipeVars, classifierVars, loopVars, mergeVars,
                 headingVars, configVars>>

\* redo
Redo ==
  /\ gpc = "ready"
  /\ IF history_index >= Len(history) - 1
     THEN UNCHANGED <<history_index, input_text, output_text, diagVars>>
     ELSE /\ history_index' = history_index + 1
          /\ ApplyState(history[history_index + 2])
  /\ UNCHANGED <<history, gpc, pipeVars, classifierVars, loopVars, mergeVars,
                 headingVars, configVars>>

\* _restore_history(index), index being the number a button of the history
\* window was made with
RestoreHistory(chosen) ==
  /\ gpc = "ready"
  /\ IF chosen < 0 \/ chosen >= Len(history)
     THEN UNCHANGED <<history_index, input_text, output_text, diagVars>>
     ELSE /\ history_index' = chosen
          /\ ApplyState(history[chosen + 1])
  /\ UNCHANGED <<history, gpc, pipeVars, classifierVars, loopVars, mergeVars,
                 headingVars, configVars>>

NextHistory ==
  \/ Startup
  \/ \E content \in FileContents : OpenFile(content)
  \/ ProcessText
  \/ Undo
  \/ Redo
  \/ \E chosen \in (0 - 1)..history_limit : RestoreHistory(chosen)

SpecHistory == InitHistory /\ [][NextHistory]_vars

----------------------------------------------------------------------------
\* The settings file (app_config.py).  A file is what json.loads makes of it:
\* no file, text that cannot be read or parsed, a JSON value that is not an
\* object, or an object; the members of an object are JSON texts.

\* the largest number of members of an object in the file
MaxConfigKeys == 2

\* a key AppConfig does not have
ExtraKey == "x"

\* the values a member of the file may hold, of the right type or not
JsonValues == {"true", "false", "\"dark\""}

\* the kinds of JSON values that are not objects
NonObjectKinds == {"array", "number", "string", "null", "bool"}

ConfigObjects ==
  UNION {[D -> JsonValues] :
           D \in {K \in SUBSET (ConfigKeys \cup {ExtraKey}) :
                    Cardinality(K) <= MaxConfigKeys}}

ConfigFiles ==
  {AbsentFile}
    \cup {[kind |-> k, members |-> NoMembers] : k \in {"invalid"} \cup NonObjectKinds}
    \cup {[kind |-> "object", members |-> m] : m \in ConfigObjects}

\* raw.get(key, value) of line 34 raises AttributeError for a value that is
\* not a dict; the call stands outside the try of lines 28-31
load_config_raises(file) == file.kind \in NonObjectKinds

\* load_config, where it returns
load_config(file) ==
  IF file.kind \in {"absent", "invalid"}
    THEN DefaultConfig
    ELSE [key \in ConfigKeys |->
            IF key \in DOMAIN file.members THEN file.members[key]
                                           ELSE DefaultConfig[key]]

\* save_config: the file becomes the object of the fields
save_config(c) == [kind |-> "object", members |-> c]

InitConfig ==
  /\ config_file \in ConfigFiles
  /\ config_model = DefaultConfig
  /\ lpc = "start"
  /\ PipeIdle
  /\ ClassifierIdle
  /\ DiagnosticsIdle
  /\ LoopIdle
  /\ MergeIdle
  /\ HeadingIdle
  /\ HistoryIdle

\* self.config_model = load_config()
LoadConfig ==
  /\ lpc \in {"start", "saved"}
  /\ IF load_config_raises(config_file)
       THEN /\ lpc' = "raised"
            /\ UNCHANGED config_model
       ELSE /\ lpc' = "loaded"
            /\ config_model' = load_config(config_file)
  /\ UNCHANGED <<config_file, pipeVars, classifierVars, diagVars, loopVars,
                 mergeVars, headingVars, historyVars>>

\* save_config(config)
SaveConfig ==
  /\ lpc = "loaded"
  /\ config_file' = save_config(config_model)
  /\ lpc' = "saved"
  /\ UNCHANGED <<config_model, pipeVars, classifierVars, diagVars, loopVars,
                 mergeVars, headingVars, historyVars>>

NextConfig == LoadConfig \/ SaveConfig

SpecConfig == InitConfig /\ [][NextConfig]_vars

-----------------------------------------------------------------------------
(* Properties *)

\* the lines of a text
LinesOf(s) == Split(s, NL)

\* C1: clean_text is idempotent for a fixed Options value: the second call,
\* given the result of the first call, returns that same result.
C1_Idempotent == (pc = "done" /\ call = 2) => text = result1

\* C2: clean_text is total: no call raises, whatever the text and the flags.
C2_NeverRaises == pc # "raised"

\* the input lines between an opening and a closing fence delimiter
FencedLines(ls) ==
  {k \in 1..Len(ls) :
     /\ k \notin FenceLines(ls)
     /\ InFence(FenceLines(ls), k)
     /\ \E j \in FenceLines(ls) : j > k}

\* C3: with remove_markdown enabled, every input line between an opening and
\* a closing fence delimiter is a line of the output of clean_text, unchanged.
C3_FencedLinesKept ==
  (pc = "done" /\ call = 1 /\ options.remove_markdown) =>
    \A k \in FencedLines(LinesOf(raw)) :
      \E j \in 1..Len(LinesOf(text)) : LinesOf(text)[j] = LinesOf(raw)[k]

\* s has n consecutive blank lines
BlankRun(s, n) ==
  \E i \in 1..(Len(LinesOf(s)) - n + 1) :
    \A j \in i..(i + n - 1) : strip(LinesOf(s)[j]) = <<>>

\* C4 as claimed: whatever the Options value, the output of clean_text never
\* has 3 or more consecutive blank lines.
C4_BlankLineCap == pc = "done" => ~BlankRun(text, 3)

\* C4: when normalize_whitespace or merge_wrapped_lines is enabled, the output
\* of clean_text never has 3 or more consecutive blank lines.
C4_BlankLineCapWhenEnabled ==
  (pc = "done" /\ (options.normalize_whitespace \/ options.merge_wrapped_lines))
    => ~BlankRun(text, 3)

\* a call with both flags on has returned, for an input with 3 blank lines
\* in a row
C4_Witness ==
  /\ pc = "done"
  /\ call = 1
  /\ options = DefaultOptions
  /\ BlankRun(raw, 3)
  /\ ~BlankRun(text, 3)

\* every line is a table row line: the text is one table block
IsBlock(ls) == \A k \in 1..Len(ls) : is_table_row_line(ls[k])

Widest(rows) == MaxOr({Len(rows[k]) : k \in 1..Len(rows)}, 0)

Padded(row, n) == row \o [k \in 1..(n - Len(row)) |-> <<>>]

\* The rows of new are the non-separator rows of old, in order, each padded
\* on the right to the widest of them, and every line of new has that many
\* columns
RoundTrip(old, new) ==
  DataRows(old) # <<>> =>
    /\ Len(DataRows(new)) = Len(DataRows(old))
    /\ \A k \in 1..Len(DataRows(old)) :
         DataRows(new)[k] = Padded(DataRows(old)[k], Widest(DataRows(old)))
    /\ \A j \in 1..Len(new) : Len(parse_table_row(new[j])) = Widest(DataRows(old))

\* C5: normalizing a table block (keep_tables on) keeps the trimmed cells of
\* every non-separator row, in row and column order, and renders every row
\* with the column count of the widest row, shorter rows padded on the right
\* with empty cells.
C5_TableRoundTrip ==
  [][(pc = "tables" /\ options.keep_tables /\ IsBlock(LinesOf(text)))
       => RoundTrip(LinesOf(text), LinesOf(text'))]_vars

\* "a|b", "1|2|3" has been normalized: the short row is padded
C5_Witness ==
  /\ pc = "punctuation"
  /\ call = 1
  /\ raw = <<"a", "|", "b", NL, "1", "|", "2", "|", "3">>
  /\ LinesOf(text) =
       << <<"|", SP, "a", SP, "|", SP, "b", SP, "|", SP, SP, "|">>,
          <<"|", SP, "-", "-", "-", SP, "|", SP, "-", "-", "-", SP, "|", SP,
            "-", "-", "-", SP, "|">>,
          <<"|", SP, "1", SP, "|", SP, "2", SP, "|", SP, "3", SP, "|">> >>

HasCJKPunct(l) == ReSearch(CN_PUNCT_HINT_PATTERN, l)

\* the number, after the insertion, of the line that had number w before
NewIndex(w) == IF w >= inserted THEN w + 1 ELSE w

\* the weak candidates left unclassified before the insertion that the
\* inserted line is directly adjacent to
AdjacentWeak == {w \in previous : NewIndex(w) \in {inserted - 1, inserted + 1}}

\* C6 as claimed: inserting a line with CJK punctuation directly adjacent to
\* a weak candidate that was not classified Code never makes that candidate
\* Code.
C6_Monotone ==
  (cpc = "returned" /\ inserted # 0 /\ HasCJKPunct(lines[inserted])) =>
    \A w \in AdjacentWeak : NewIndex(w) \notin code_indexes

\* C6: inserting a line with CJK punctuation that is neither a fence
\* delimiter nor a strong-code line directly adjacent to a weak candidate
\* that was not classified Code never makes that candidate Code.
C6_MonotoneForProse ==
  (/\ cpc = "returned"
   /\ inserted # 0
   /\ HasCJKPunct(lines[inserted])
   /\ ~IsFenceLine(lines[inserted])
   /\ ~MatchesStrong(strip(lines[inserted]))) =>
    \A w \in AdjacentWeak : NewIndex(w) \notin code_indexes

\* "[，]" has been inserted next to an unclassified weak candidate, which is
\* still not Code
C6_Witness ==
  /\ cpc = "returned"
  /\ inserted # 0
  /\ lines[inserted] = <<"[", "uFF0C", "]">>
  /\ AdjacentWeak # {}
  /\ \A w \in AdjacentWeak : NewIndex(w) \notin code_indexes

\* C7: a pass whose flag disables it does not rewrite the text: with
\* remove_markdown off the Markdown pass leaves the text as it is, and with
\* every flag off so do the list-marker, noise and CJK/Latin spacing passes.
C7_FlagsGatePasses ==
  [][/\ (pc = "markdown" /\ ~options.remove_markdown) => text' = text
     /\ (options = AllOff /\ pc \in {"list_markers", "noise", "spacing"})
          => text' = text]_vars

\* the first call on the text of scenario 1 with the default options has
\* returned
C8_Witness ==
  pc = "done" /\ call = 1 /\ raw = Scenario1Input /\ options = DefaultOptions

\* C8 as claimed: scenario 1 returns "标题", an empty line, and "这是重点内容。"
\* behind two full-width spaces.
C8_Scenario1AsClaimed ==
  C8_Witness =>
    text = <<"u6807", "u9898", NL, NL, IDSP, IDSP,
             "u8FD9", "u662F", "u91CD", "u70B9", "u5185", "u5BB9", "u3002">>

\* C8: scenario 1 returns "标题" and "这是重点内容." on two lines, each behind
\* two full-width spaces: the heading line is indented, the blank line is
\* dropped and the full stop is folded to ".".
C8_Scenario1 ==
  C8_Witness =>
    text = <<IDSP, IDSP, "u6807", "u9898", NL, IDSP, IDSP,
             "u8FD9", "u662F", "u91CD", "u70B9", "u5185", "u5BB9", ".">>

SeparatorRows(ls) == {k \in 1..Len(ls) : is_table_separator_line(ls[k])}

\* line l is a freshly generated separator row
IsFresh(l) == \E n \in 1..Len(l) : l = format_table_separator(n)

\* a header is present (a separator line in the block, or inferred from the
\* rows) or the block has two rows or more
WantsSeparator(old) ==
  \/ SeparatorRows(old) # {}
  \/ (DataRows(old) # <<>> /\ is_probable_header(Head(DataRows(old)), Tail(DataRows(old))))
  \/ Len(DataRows(old)) >= 2

\* exactly one separator row, freshly generated, right after the first row
\* when one is wanted, and none otherwise
SeparatorRule(old, new) ==
  IF WantsSeparator(old)
  THEN SeparatorRows(new) = {2} /\ IsFresh(new[2])
  ELSE SeparatorRows(new) = {}

\* C9 as claimed: a normalized table block has exactly one separator row,
\* freshly generated and right after the first row, when a header is present
\* or the block has 2 rows or more, and no separator row otherwise.
C9_SeparatorRow ==
  [][(pc = "tables" /\ options.keep_tables /\ IsBlock(LinesOf(text)))
       => SeparatorRule(LinesOf(text), LinesOf(text'))]_vars

\* C9: a table block with at least one non-separator row is normalized as
\* claimed; a block of separator lines only is returned unchanged.
C9_SeparatorRowOfRows ==
  [][(pc = "tables" /\ options.keep_tables /\ IsBlock(LinesOf(text)))
       => IF DataRows(LinesOf(text)) = <<>> THEN text' = text
          ELSE SeparatorRule(LinesOf(text), LinesOf(text'))]_vars

\* "a|b", "1|2" has been normalized: a separator row follows the first row
C9_Witness ==
  /\ pc = "punctuation"
  /\ call = 1
  /\ raw = <<"a", "|", "b", NL, "1", "|", "2">>
  /\ LinesOf(text) =
       << <<"|", SP, "a", SP, "|", SP, "b", SP, "|">>,
          <<"|", SP, "-", "-", "-", SP, "|", SP, "-", "-", "-", SP, "|">>,
          <<"|", SP, "1", SP, "|", SP, "2", SP, "|">> >>

\* the separator between two lines a and b of one paragraph: none between
\* two CJK characters, one space otherwise
Separator(a, b) ==
  IF a[Len(a)] \in CJKChars /\ b[1] \in CJKChars THEN <<>> ELSE <<SP>>

\* the lines ls in one paragraph
JoinedBy(ls) ==
  Flatten([k \in 1..(2 * Len(ls) - 1) |->
             IF k % 2 = 1 THEN ls[(k + 1) \div 2]
             ELSE Separator(ls[k \div 2], ls[k \div 2 + 1])])

\* every line of ls is trimmed prose (not blank, not code, no table row, no
\* list item) and reflow appends each line after the first to the buffer
Appended(ls) ==
  /\ \A k \in 1..Len(ls) :
       /\ ls[k] # <<>>
       /\ strip(ls[k]) = ls[k]
       /\ k \notin detect_code_line_indexes(ls)
       /\ ~is_table_row_line(ls[k])
       /\ ~ReMatch(LIST_MARKER_PATTERN, ls[k])
  /\ \A k \in 1..(Len(ls) - 1) :
       ~should_break_paragraph(JoinedBy(SubSeq(ls, 1, k)), ls[k + 1])

\* C10: when reflow appends a line to the paragraph buffer it inserts no
\* separator between two CJK characters and exactly one space otherwise, so
\* lines it appends one after the other make a single paragraph, with no
\* space between CJK lines.
C10_Joiner ==
  [][(pc = "merge" /\ options.merge_wrapped_lines /\ Appended(LinesOf(text)))
       => text' = JoinedBy(LinesOf(text))]_vars

\* the three lines of scenario 4 have been merged into one paragraph with no
\* space in it
C10_Witness ==
  /\ pc = "indent"
  /\ call = 1
  /\ raw = Scenario4Input
  /\ text = <<"u8FD9", "u662F", "u7B2C", "u4E00", "u884C",
              "u6CA1", "u6709", "u6807", "u70B9", "u7ED3", "u5C3E",
              "u7EE7", "u7EED", "u8FD9", "u53E5", "u8BDD", ".">>


-----------------------------------------------------------------------------
\* the number of non-blank lines of t that hold a character of A and one of B
LinesWithBoth(t, A, B) ==
  Cardinality({k \in 1..Len(LinesOf(t)) :
                 /\ strip(LinesOf(t)[k]) # <<>>
                 /\ \E i \in 1..Len(LinesOf(t)[k]) : LinesOf(t)[k][i] \in A
                 /\ \E i \in 1..Len(LinesOf(t)[k]) : LinesOf(t)[k][i] \in B})

\* one warning that carries the count n when n is not zero, none otherwise
ReportsCount(n) ==
  IF n > 0 THEN warnings = <<MixedWarning(n)>> ELSE warnings = <<>>

\* C11 as claimed: the report holds one warning with the count if and only
\* if some non-blank line holds both a CJK punctuation character and an
\* ASCII punctuation character (any of them, "-" and "#" included), and the
\* count is the number of such lines.
C11_Warnings ==
  dpc = "done" => ReportsCount(LinesWithBoth(shown, CH_PUNCT, AsciiPunct))

\* C11 amended: the report holds one warning with the count if and only if
\* some non-blank line holds both a character of CH_PUNCT and a character of
\* EN_PUNCT, and the count is the number of such lines; there is never more
\* than one warning.
C11_WarningsOfSets ==
  dpc = "done" =>
    /\ Len(warnings) <= 1
    /\ ReportsCount(LinesWithBoth(shown, CH_PUNCT, EN_PUNCT))

\* a report of two mixed lines on a text that also has a line with CJK
\* punctuation and an ASCII character outside EN_PUNCT
C11_Witness ==
  /\ dpc = "done"
  /\ warnings = <<MixedWarning(2)>>
  /\ LinesWithBoth(shown, CH_PUNCT, AsciiPunct) = 3

-----------------------------------------------------------------------------
\* the number of characters of S that end at position i of t
RunBefore(t, i, S) ==
  i - MaxOr({j \in 1..i : t[j] \notin S}, 0)

\* W: the maximal runs of whitespace of three characters or more, counted
\* at the third character of the run
WhitespaceRuns(t) ==
  Cardinality({i \in 1..Len(t) : RunBefore(t, i, SpaceChars) = 3})

\* Z: the zero-width and BOM characters
ZeroWidthCount(t) == Cardinality({i \in 1..Len(t) : t[i] \in ZeroWidthChars})

\* H and F: the markers of three characters c, one for every third
\* character of a run of c
Markers(t, c) ==
  Cardinality({i \in 1..Len(t) :
                 RunBefore(t, i, {c}) > 0 /\ RunBefore(t, i, {c}) % 3 = 0})

\* the length of the text between its first and last non-whitespace
\* character
TrimmedLen(t) ==
  IF \A i \in 1..Len(t) : t[i] \in SpaceChars THEN 0
  ELSE MaxOr({i \in 1..Len(t) : t[i] \notin SpaceChars}, 0)
       - MinOr({i \in 1..Len(t) : t[i] \notin SpaceChars}, 0) + 1

\* P: 10 for a trimmed text of fewer than 30 characters
ShortP(t) == IF TrimmedLen(t) < 30 THEN 10 ELSE 0

ScoreFormula(t) ==
  max(0, min(100, 100 - min(20, 2 * WhitespaceRuns(t))
                      - min(20, 3 * ZeroWidthCount(t))
                      - min(20, 2 * Markers(t, "#") + 3 * Markers(t, "u0060"))
                      - ShortP(t)))

\* C12: the quality score equals
\* max(0, min(100, 100 - min(20, 2W) - min(20, 3Z) - min(20, 2H + 3F) - P))
\* and is an integer of 0..100.
C12_QualityScore ==
  dpc \in {"punctuation", "done"} =>
    /\ score = ScoreFormula(shown)
    /\ score \in 0..100

\* a long text on which each of the three caps is exceeded
C12_Witness ==
  /\ dpc = "done"
  /\ score = 40
  /\ 2 * WhitespaceRuns(shown) > 20
  /\ 3 * ZeroWidthCount(shown) > 20
  /\ 2 * Markers(shown, "#") + 3 * Markers(shown, "u0060") > 20

-----------------------------------------------------------------------------
\* the text without its whitespace
NoSpace(t) == RemoveChars(t, SpaceChars)

\* how the loop of merge_lines treats line k: the tests in their order
ReflowKind(k) ==
  IF k \in code_indexes THEN "code"
  ELSE IF strip(lines[k]) = <<>> THEN "blank"
  ELSE IF is_table_row_line(strip(lines[k])) THEN "table"
  ELSE IF ReMatch(LIST_MARKER_PATTERN, strip(lines[k])) THEN "list"
  ELSE "ordinary"

\* merged with the buffer, when it holds text, emitted as one more paragraph
WithBuffer == IF buffer # <<>> THEN Append(merged, buffer) ELSE merged

\* the step of the loop on line number index
LineStep == mpc = "loop" /\ index' = index + 1

\* a Code, table-row or list-marker line: the buffer is flushed before it
\* and the line is one more output line
EmitsOwnLine ==
  /\ buffer' = <<>>
  /\ merged' = Append(WithBuffer,
                      IF ReflowKind(index) = "code" THEN rstrip(lines[index])
                      ELSE strip(lines[index]))

\* a blank line: the buffer is flushed and nothing else is emitted
EmitsNothing == buffer' = <<>> /\ merged' = WithBuffer

\* another line: its text is the end of the one paragraph being built
JoinsOneParagraph ==
  /\ merged' \in {merged, WithBuffer}
  /\ Len(buffer') >= Len(strip(lines[index]))
  /\ SubSeq(buffer', Len(buffer') - Len(strip(lines[index])) + 1, Len(buffer'))
       = strip(lines[index])

\* what has been emitted is the text of the lines read, in their order
InInputOrder ==
  NoSpace(Flatten(merged') \o buffer') = NoSpace(Flatten(SubSeq(lines, 1, index)))

\* at the end of input the buffer is flushed, and the text returned holds
\* the non-blank output lines in order and every character of the input
ReturnsAll ==
  /\ merged' = WithBuffer
  /\ NonBlankFrom(LinesOf(reflowed'), 1) = NonBlankFrom(merged', 1)
  /\ NoSpace(reflowed') = NoSpace(Flatten(lines))

\* C13: merge_lines is lossless and order-preserving over non-blank lines:
\* the buffer is flushed before every Code, blank, table-row and list-marker
\* line and at end of input, each Code, table-row and list-marker line is
\* emitted as its own output line, the text of every other non-blank line is
\* in exactly one paragraph, the emitted text is in input order, and a blank
\* line emits nothing.
C13_ReflowLossless ==
  [][/\ LineStep =>
        /\ ReflowKind(index) \in {"code", "table", "list"} => EmitsOwnLine
        /\ ReflowKind(index) = "blank" => EmitsNothing
        /\ ReflowKind(index) = "ordinary" => JoinsOneParagraph
        /\ InInputOrder
     /\ (mpc = "loop" /\ mpc' = "done") => ReturnsAll]_vars

\* three lines returned as two: two wrapped lines joined and a Code line
C13_Witness ==
  /\ mpc = "done"
  /\ Len(lines) = 3
  /\ 3 \in code_indexes
  /\ Len(merged) = 2
  /\ Len(merged[1]) > Len(lines[1])
  /\ reflowed = merged[1] \o <<NL>> \o merged[2]

-----------------------------------------------------------------------------
\* the characters that end a sentence: . ! ? ; : and their full-width forms
TerminalPunct == {".", "!", "?", ";", ":", "u3002", "uFF01", "uFF1F", "uFF1B", "uFF1A"}

\* the conditions of the claim on the buffer b and the new line l
MustBreak(b, l) ==
  \/ is_table_row_line(b) \/ is_table_row_line(l)
  \/ ReMatch(LINE_START_MARKER, l)
  \/ is_heading_like(b) \/ is_heading_like(l)
  \/ b[Len(b)] \in TerminalPunct

\* the buffer becomes a paragraph and the line starts the next one
StartsParagraph ==
  merged' = Append(merged, buffer) /\ buffer' = strip(lines[index])

\* the line is appended to the buffer, with or without a space
AppendsToBuffer ==
  /\ merged' = merged
  /\ buffer' \in {buffer \o strip(lines[index]),
                  buffer \o <<SP>> \o strip(lines[index])}

\* C14: an ordinary line (not Code, blank, table row or list-marker line)
\* that arrives while the buffer is non-empty starts a new paragraph if and
\* only if either side is a table row, the line starts with a list or
\* ordinal marker, the buffer or the line is heading-like, or the buffer
\* ends in terminal punctuation; otherwise it is appended to the buffer.
C14_BreakRule ==
  [][(LineStep /\ ReflowKind(index) = "ordinary" /\ buffer # <<>>) =>
       IF MustBreak(buffer, strip(lines[index]))
       THEN StartsParagraph /\ ~AppendsToBuffer
       ELSE AppendsToBuffer /\ ~StartsParagraph]_vars

\* a heading-like line has started a paragraph after a buffer that does not
\* end a sentence, and the next line has been appended to another buffer
C14_Witness ==
  /\ mpc = "done"
  /\ Len(lines) = 3
  /\ code_indexes = {}
  /\ is_heading_like(lines[2])
  /\ lines[1] # <<>>
  /\ lines[1][Len(lines[1])] \notin TerminalPunct \cup SpaceChars
  /\ Len(merged) = 2

-----------------------------------------------------------------------------
\* a fenced-code delimiter: three backticks after the leading whitespace
IsDelimiter(l) ==
  StartsWith(LStripSet(l, SpaceChars), <<"u0060", "u0060", "u0060">>)

\* the inside-fence flag after the lines 1..k: every delimiter toggles it
RECURSIVE InsideAfter(_)
InsideAfter(k) ==
  IF k = 0 THEN FALSE
  ELSE IF IsDelimiter(lines[k]) THEN ~InsideAfter(k - 1)
  ELSE InsideAfter(k - 1)

\* C15: a delimiter line toggles the inside-fence flag and is never in the
\* returned set; every other line that an odd number of delimiter lines
\* precedes is in the returned set, blank lines and the lines after an
\* unclosed fence included.
C15_FenceRule ==
  cpc = "returned" =>
    \A k \in 1..Len(lines) :
      IF IsDelimiter(lines[k]) THEN k \notin code_indexes
      ELSE InsideAfter(k - 1) => k \in code_indexes

\* a blank line and a last line of prose after an unclosed fence are Code
C15_Witness ==
  /\ cpc = "returned"
  /\ Cardinality({k \in 1..Len(lines) : IsDelimiter(lines[k])}) = 1
  /\ \E k \in code_indexes : lines[k] = <<>>
  /\ Len(lines) \in code_indexes
  /\ lines[Len(lines)] = <<"a">>

-----------------------------------------------------------------------------
\* line c is next to line w, or two lines away with a blank line between
Linked(c, w) ==
  \/ c - w = 1 \/ w - c = 1
  \/ c - w = 2 /\ strip(lines[w + 1]) = <<>>
  \/ w - c = 2 /\ strip(lines[w - 1]) = <<>>

\* a line outside the fenced blocks that matches no strong-code pattern and
\* holds a code symbol without a CJK punctuation hint
SymbolOnly(k) ==
  /\ ~IsDelimiter(lines[k])
  /\ ~InsideAfter(k - 1)
  /\ ~MatchesStrong(strip(lines[k]))
  /\ \E i \in 1..Len(lines[k]) : lines[k][i] \in {"{", "}", "[", "]", "=", ";"}
  /\ ~HasCJKPunct(lines[k])

\* C16: outside fenced blocks, a line that matches no strong-code pattern
\* and holds a code symbol without a CJK punctuation hint is only a weak
\* candidate: it is Code only if a Code line is next to it or one blank line
\* away, and stays non-Code without such a neighbour.
C16_SymbolLinesWeak ==
  cpc = "returned" =>
    \A k \in 1..Len(lines) :
      (SymbolOnly(k) /\ k \in code_indexes) =>
        \E c \in code_indexes \ {k} : Linked(c, k)

-----------------------------------------------------------------------------
\* the Code lines of the first loop: the lines inside a fence and the code
\* candidates
FirstCode ==
  {k \in 1..Len(lines) :
     ~IsDelimiter(lines[k]) /\ (InsideAfter(k - 1) \/ is_code_line_candidate(lines[k]))}

\* the weak candidates: the other lines outside the fences that are
\* indented or start with "#"
WeakCandidates ==
  {k \in 1..Len(lines) :
     /\ ~IsDelimiter(lines[k])
     /\ ~InsideAfter(k - 1)
     /\ k \notin FirstCode
     /\ strip(lines[k]) # <<>>
     /\ \/ IsIndented(lines[k])
        \/ Head(strip(lines[k])) = "#"}

\* the lines that chains of at most n links join to the lines S through the
\* weak candidates W
RECURSIVE Chained(_, _, _)
Chained(S, W, n) ==
  IF n = 0 THEN S
  ELSE Chained(S \cup {w \in W : \E c \in S : Linked(c, w)}, W, n - 1)

-----------------------------------------------------------------------------
\* C18: the propagation loop terminates: a pass of the while loop never adds
\* an index to the weak set, a pass that sets changed removes at least one,
\* and the loop makes at most (initial size of the weak set + 1) passes.
C18_LoopTerminates ==
  [][(cpc = "loop" /\ passes' = passes + 1) =>
       /\ weak_indexes' \subseteq weak_indexes
       /\ changed' => weak_indexes' # weak_indexes
       /\ passes' <= Cardinality(WeakCandidates) + 1]_vars

\* three weak candidates promoted one per pass: four passes
C18_Witness ==
  /\ cpc = "returned"
  /\ Cardinality(WeakCandidates) = 3
  /\ weak_indexes = {}
  /\ passes = 4

-----------------------------------------------------------------------------
\* the protected lines of a list of lines: those the classifier returns
\* and the table rows and separators
ProtectedLines(ls) ==
  detect_code_line_indexes(ls)
  \cup {k \in 1..Len(ls) : is_table_row_line(ls[k]) \/ is_table_separator_line(ls[k])}

\* what the pass emits for the k-th free span (the lines between two
\* protected lines, before the first or after the last) and the protected
\* line that ends it: the span with the substitutions applied, when it
\* holds a line, then the protected line as it is
EmittedFor(ls, P, k) ==
  (IF SplitAt(ls, P)[k] # <<>>
   THEN <<strip_markdown_inline(Join(<<NL>>, SplitAt(ls, P)[k]))>> ELSE <<>>)
  \o (IF k <= Cardinality(P) THEN <<ls[CutAt(P, k, Len(ls))]>> ELSE <<>>)

\* the text that keeps the protected lines of ls and rewrites the free spans
\* one by one
SpanBySpan(ls, P) ==
  Join(<<NL>>, Flatten([k \in 1..(Cardinality(P) + 1) |-> EmittedFor(ls, P, k)]))

\* C19: in the Markdown pass every protected line (Code, table row or
\* table separator) is emitted unchanged and in order, and the
\* substitutions are applied to each free span between protected lines on
\* its own, so that none matches across a protected line.
C19_ProtectedLines ==
  [][(pc = "markdown" /\ pc' = "tables" /\ options.remove_markdown) =>
       text' = SpanBySpan(LinesOf(text), ProtectedLines(LinesOf(text)))]_vars

\* "a**b", "x = 1", "c**d": the emphasis markers on either side of a Code
\* line are left, the pass has changed nothing
C19_Witness ==
  /\ pc = "tables"
  /\ raw = <<"a", "*", "*", "b", NL, "x", SP, "=", SP, "1", NL, "c", "*", "*", "d">>
  /\ text = raw

\* the rows parse_table_block hands to is_probable_header when the Tables
\* pass reads the text: the first row, and the rows below it
HeaderRows == DataRows(LinesOf(text))

HasUrlCell(row) ==
  \E k \in 1..Len(row) : Contains(lower(row[k]), <<"h", "t", "t", "p">>)

\* C20: is_probable_header returns false for every first row in which some
\* cell contains "http", whatever header keywords the row holds and however
\* short its cells are.
C20_UrlRowsNotHeader ==
  (pc = "tables" /\ HeaderRows # <<>> /\ HasUrlCell(HeaderRows[1]))
    => ~is_probable_header(HeaderRows[1], Tail(HeaderRows))

\* the data rows of a block: its rows that are not separator lines, less
\* the header row where the block has one
DataRowsOf(ls) ==
  IF parse_table_block(ls).has_header /\ DataRows(ls) # <<>>
  THEN Tail(DataRows(ls)) ELSE DataRows(ls)

HeaderOf(ls) ==
  IF parse_table_block(ls).has_header /\ DataRows(ls) # <<>>
  THEN Head(DataRows(ls)) ELSE <<>>

\* the bullet of the k-th data row of the block
BulletOfRow(ls, k) ==
  format_table_bullet(Pad(HeaderOf(ls), MaxCols(HeaderOf(ls), DataRowsOf(ls))),
                      Pad(DataRowsOf(ls)[k], MaxCols(HeaderOf(ls), DataRowsOf(ls))))

\* C21: flattening (keep_tables = false) replaces a table block by exactly
\* one bullet line per data row, in row order; the header row and the
\* separator lines produce no output line.
C21_OneBulletPerDataRow ==
  [][(pc = "tables" /\ ~options.keep_tables /\ IsBlock(LinesOf(text))) =>
       /\ pc' = "punctuation"
       /\ text' = Join(<<NL>>, [k \in 1..Len(DataRowsOf(LinesOf(text))) |->
                                  BulletOfRow(LinesOf(text), k)])
       /\ \A k \in 1..Len(DataRowsOf(LinesOf(text))) :
            StartsWith(BulletOfRow(LinesOf(text), k), BULLET)]_vars

\* the line without the white space around it
Trimmed(s) == strip(s)

LastChar(s) == s[Len(s)]

\* the number of non-empty pieces between the colons of s
ColonSegments(s) ==
  Cardinality({i \in 1..Len(s) :
                 s[i] \notin Colons /\ (i = 1 \/ s[i - 1] \in Colons)})

\* the rule of the claim, with the least number of segments of case (b)
HeadingRule(s, least) ==
  /\ s # <<>>
  /\ ~ReMatch(LIST_MARKER_PATTERN, s)
  /\ ~is_table_row_line(s)
  /\ \/ Len(s) <= 30 /\ LastChar(s) \in Colons
     \/ /\ Len(s) <= 24
        /\ \E i \in 1..Len(s) : s[i] \in Colons
        /\ LastChar(s) \notin {"uFF0C", ",", "u3002", ".", "!", "?", "uFF01", "uFF1F"}
        /\ least <= ColonSegments(s)
        /\ ColonSegments(s) <= 3

\* C22: is_heading_like(line) is true exactly when the line is not a
\* list-marker line or table row and either (a) it has at most 30 characters
\* and ends in a colon, or (b) it has at most 24 characters, contains a colon,
\* has no trailing sentence punctuation, and splits on colons into 1 to 3
\* non-empty segments.
C22_HeadingLike ==
  hpc = "returned" => (heading <=> HeadingRule(Trimmed(candidate), 1))

\* C22 as amended: case (b) asks for 2 or 3 non-empty segments; a line whose
\* colons leave one segment (":b") is a heading only by case (a).
C22_HeadingLikeTwoSegments ==
  hpc = "returned" => (heading <=> HeadingRule(Trimmed(candidate), 2))

\* "a:b" is a heading by case (b)
C22_Witness ==
  /\ hpc = "returned"
  /\ candidate = <<"a", ":", "b">>
  /\ heading

\* the k-th line is blank
IsBlankLine(ls, k) == strip(ls[k]) = <<>>

\* the k-th line is the first line or follows a blank line
AfterBlank(ls, C, k) == k = 1 \/ IsBlankLine(ls, k - 1)

\* the k-th line is the first line or follows a blank line or a Code line
AfterBlankOrCode(ls, C, k) == k = 1 \/ IsBlankLine(ls, k - 1) \/ (k - 1) \in C

\* what the indentation of unmerged text leaves of the k-th line, where
\* boundary tells whether the line starts a paragraph
IndentedLine(ls, C, k, boundary) ==
  IF k \in C THEN rstrip(ls[k])
  ELSE IF boundary /\ ~IsBlankLine(ls, k) /\ should_indent(strip(ls[k]))
  THEN PARAGRAPH_INDENT \o strip(ls[k])
  ELSE strip(ls[k])

IndentsUnmerged ==
  pc = "indent" /\ options.indent_paragraph /\ ~options.merge_wrapped_lines

\* C23: with merge_wrapped_lines off, a line receives the indent only if it
\* is the first line or immediately follows a blank line (and is not code,
\* table, heading-like or list); every other line is left without indent.
C23_IndentAfterBlank ==
  [][IndentsUnmerged =>
       text' = Join(<<NL>>, [k \in 1..Len(LinesOf(text)) |->
                  IndentedLine(LinesOf(text), detect_code_line_indexes(LinesOf(text)), k,
                               AfterBlank(LinesOf(text),
                                          detect_code_line_indexes(LinesOf(text)), k))])]_vars

\* C23 as amended: the line after a Code line starts a paragraph as well.
C23_IndentAfterBlankOrCode ==
  [][IndentsUnmerged =>
       text' = Join(<<NL>>, [k \in 1..Len(LinesOf(text)) |->
                  IndentedLine(LinesOf(text), detect_code_line_indexes(LinesOf(text)), k,
                               AfterBlankOrCode(LinesOf(text),
                                                detect_code_line_indexes(LinesOf(text)), k))])]_vars

\* "", "中文", "ab": the line after the blank line is indented, the line
\* after it is not
C23_Witness ==
  /\ pc = "strip"
  /\ ~options.merge_wrapped_lines
  /\ text = <<NL, IDSP, IDSP, "u4E2D", "u6587", NL, "a", "b">>

\* the characters the substitution table replaces
PunctKeys == {c \in WidePunct : PUNCT_MAP(c) # <<c>>}

HasPunctKey(line) == \E i \in 1..Len(line) : line[i] \in PunctKeys

\* C24: the punctuation pass rewrites exactly the non-Code lines: after it
\* no line outside the Code set holds a character of the substitution table
\* (each is replaced by its ASCII equivalent), every Code line is unchanged
\* and the number of lines is unchanged.
C24_PunctuationPass ==
  [][(pc = "punctuation" /\ options.normalize_punctuation) =>
       /\ Len(LinesOf(text')) = Len(LinesOf(text))
       /\ \A k \in 1..Len(LinesOf(text)) :
            IF k \in detect_code_line_indexes(LinesOf(text))
            THEN LinesOf(text')[k] = LinesOf(text)[k]
            ELSE /\ ~HasPunctKey(LinesOf(text')[k])
                 /\ LinesOf(text')[k] = PunctMapped(NFKC(LinesOf(text)[k]))]_vars

\* A Code line that keeps its wide quotation marks, and Scenario 2
C24_Witness ==
  /\ pc = "emoji"
  /\ raw = <<"y", SP, "=", SP, "u201C", "a", "u201D", NL,
             "u4F60", "u597D", "uFF0C", "u4E16", "u754C", "uFF01">>
  /\ text = <<"y", SP, "=", SP, "u201C", "a", "u201D", NL,
              "u4F60", "u597D", ",", "u4E16", "u754C", "!">>

\* a is followed by b across one of the boundaries of the pass: a CJK
\* character and a Latin letter or digit, or a Latin letter and a digit
Boundary(a, b) ==
  \/ a \in CJKChars /\ b \in Letters \cup Digits
  \/ a \in Letters \cup Digits /\ b \in CJKChars
  \/ a \in Letters /\ b \in Digits
  \/ a \in Digits /\ b \in Letters

HasBoundary(line) ==
  \E i \in 1..(Len(line) - 1) : Boundary(line[i], line[i + 1])

\* the line with one space put at each boundary
SpacedAtBoundaries(line) ==
  Flatten([i \in 1..Len(line) |->
             IF i < Len(line) /\ Boundary(line[i], line[i + 1])
             THEN <<line[i], SP>> ELSE <<line[i]>>])

\* C25: after the CJK/Latin spacing pass no non-Code line holds a CJK
\* character next to a Latin letter or digit, or a Latin letter next to a
\* digit: exactly one space is inserted at each such boundary, Code lines
\* are unchanged, and applying the pass again changes nothing.
C25_SpacingPass ==
  [][(pc = "spacing") =>
       /\ Len(LinesOf(text')) = Len(LinesOf(text))
       /\ \A k \in 1..Len(LinesOf(text)) :
            IF k \in detect_code_line_indexes(LinesOf(text))
            THEN LinesOf(text')[k] = LinesOf(text)[k]
            ELSE /\ ~HasBoundary(LinesOf(text')[k])
                 /\ LinesOf(text')[k] = SpacedAtBoundaries(LinesOf(text)[k])
       /\ normalize_cjk_latin_spacing(text') = text']_vars

\* "a中1文" has become "a 中 1 文" and the Code line "x = a1" is as it was
C25_Witness ==
  /\ pc = "merge"
  /\ raw = <<"a", "u4E2D", "1", "u6587", NL, "x", SP, "=", SP, "a", "1">>
  /\ text = <<"a", SP, "u4E2D", SP, "1", SP, "u6587", NL, "x", SP, "=", SP, "a", "1">>

\* the text holds no carriage return and no zero-width character
NoControlChars(s) == \A i \in 1..Len(s) : s[i] \notin {CR} \cup ZeroWidthChars

\* C26: for every input and every option value the output of clean_text
\* holds no carriage return and no zero-width or BOM character and neither
\* begins nor ends with a newline; the characters are removed whatever the
\* options are, and no later pass brings them back.
C26_NoControlChars ==
  /\ pc \notin {"idle", "start"} => NoControlChars(text)
  /\ (pc = "done" /\ text # <<>>) => (Head(text) # NL /\ text[Len(text)] # NL)

\* a text with a carriage return, a newline and zero-width characters
\* around a letter, cleaned with every flag off
C26_Witness ==
  /\ pc = "done"
  /\ call = 1
  /\ options = AllOff
  /\ raw = <<CR, "a", "u200B", "uFEFF">>
  /\ text = <<"a">>

\* the separator lines among ls
SeparatorLines(ls) == {k \in 1..Len(ls) : is_table_separator_line(ls[k])}

\* C27: normalize_table_blocks is idempotent: every rendered row is still a
\* table row of the same block, the generated separator is read again as the
\* header separator, and no second separator or extra column is added.
C27_TablesIdempotent ==
  [][(pc = "tables" /\ options.keep_tables) =>
       /\ normalize_table_blocks(text') = text'
       /\ IsBlock(LinesOf(text)) =>
            /\ IsBlock(LinesOf(text'))
            /\ DataRows(LinesOf(text)) # <<>> =>
                 Cardinality(SeparatorLines(LinesOf(text'))) <= 1]_vars

\* "a|b", "1|2|3" normalized: three lines, the second the generated
\* separator, and normalizing them again leaves them
C27_Witness ==
  /\ pc = "punctuation"
  /\ call = 1
  /\ raw = <<"a", "|", "b", NL, "1", "|", "2", "|", "3">>
  /\ SeparatorLines(LinesOf(text)) = {2}
  /\ Len(LinesOf(text)) = 3
  /\ normalize_table_blocks(text) = text

\* C28: after any sequence of record, undo, redo and restore operations the
\* history holds at most 30 entries, history_index is -1 exactly when the
\* history is empty and is otherwise between 0 and len(history) - 1.
HistoryInvariant ==
  /\ Len(history) <= 30
  /\ history_index = 0 - 1 <=> history = <<>>
  /\ history # <<>> => (0 <= history_index /\ history_index <= Len(history) - 1)

\* a step of a full history that records a new state
EvictingRecord ==
  /\ Len(history) = 30
  /\ history_index = 29
  /\ history' # history

\* C28, the eviction: when the limit is exceeded the oldest entry is evicted
\* and the index still designates the newly recorded state.
C28_HistoryBounded ==
  /\ []HistoryInvariant
  /\ [][EvictingRecord =>
          /\ SubSeq(history', 1, 29) = Tail(history)
          /\ Len(history') = 30
          /\ history'[history_index' + 1].input = input_text'
          /\ history'[history_index' + 1].output = output_text'
          /\ history_index' = 29]_vars

\* a full history whose oldest entry, the record of __init__, has been
\* evicted
C28_Witness ==
  /\ Len(history) = 30
  /\ history_index = 29
  /\ history[1].label # LABEL_STARTUP

\* the entry that holds what the two widgets hold
IsCurrentText(entry) == entry.input = input_text /\ entry.output = output_text

\* a step that records a new state while the index is not at the last entry
RecordsAfterUndo ==
  /\ history' # history
  /\ history_index < Len(history) - 1

\* C29: the history is linear.  A record that appends while the index is not
\* at the last entry first discards every entry after the index; after any
\* record that appends the new state is the last entry, so that redo does
\* nothing; undo and redo change the index only, never the entries.
C29_HistoryLinear ==
  /\ [][RecordsAfterUndo =>
          history' = Append(SubSeq(history, 1, history_index + 1),
                            history'[Len(history')])]_vars
  /\ [][history' # history =>
          /\ history_index' = Len(history') - 1
          /\ history'[Len(history')].input = input_text'
          /\ history'[Len(history')].output = output_text'
          /\ \/ history = <<>>
             \/ history'[Len(history')].input # history[history_index + 1].input
             \/ history'[Len(history')].output # history[history_index + 1].output]_vars
  /\ [][(Redo /\ history_index = Len(history) - 1) => UNCHANGED vars]_vars
  /\ [][(Undo \/ Redo) => history' = history]_vars

\* the window after "open a, process": three entries, the cleaned text the
\* last of them and the one shown, nothing to redo
C29_Witness ==
  /\ Len(history) = 3
  /\ history_index = 2
  /\ history[3].label = LABEL_PROCESS
  /\ history[3].input = <<"a">>
  /\ history[3].output = <<IDSP, IDSP, "a">>
  /\ output_text = <<IDSP, IDSP, "a">>

\* the file holds nothing load_config can use as a settings object
Unusable(file) == file.kind # "object"

\* the settings a file stands for: its own members where AppConfig has the
\* key, the defaults elsewhere
SettingsOf(file) ==
  [key \in ConfigKeys |->
     IF ~Unusable(file) /\ key \in DOMAIN file.members
       THEN file.members[key]
       ELSE DefaultConfig[key]]

\* C30: load_config never fails because of what the file holds and always
\* returns an AppConfig: the defaults for an absent or unusable file, and for
\* an object its members with the default for every missing key, keys that
\* AppConfig does not have being ignored.
C30_LoadConfigTotal ==
  /\ lpc # "raised"
  /\ lpc = "loaded" =>
       /\ DOMAIN config_model = ConfigKeys
       /\ config_model = SettingsOf(config_file)

=============================================================================
